---- MODULE Spec2Model ----
(***************************************************************************)
(* The privileged-operation core of src/util/virutil.c: the restartable    *)
(* I/O primitives, virSetUIDGID, virFileAccessibleAs, virFileOpenAs with   *)
(* virFileOpenForked and virFileOpenForceOwnerMode, and the FC host        *)
(* discovery virFindFCHostCapableVport.                                    *)
(*                                                                         *)
(* Every operation is a call frame (a record with a program counter),      *)
(* stepped by one action per statement group of the C code.  System calls  *)
(* are steps whose result is drawn from the outcomes the kernel can give.  *)
(***************************************************************************)
EXTENDS Integers, Sequences, FiniteSets, TLC

VARIABLES
    me,     \* getuid()/getgid() of the process that calls the operation
    cred,   \* credentials of the process that runs virSetUIDGID
    sug,    \* frame of virSetUIDGID
    acc,    \* frame of virFileAccessibleAs (parent side)
    p,      \* frame of virFileOpenAs and of virFileOpenForked (parent side)
    c,      \* the forked child process
    fs,     \* the file named by path: existence, owner, group, mode
    fc,     \* frame of virFindFCHostCapableVport and the sysfs tree it reads
    io,     \* frame of safewrite/saferead or safezero and the file they work on
    dc,     \* frame of virDirCreate (parent side)
    wc,     \* frame of virSetUIDGIDWithCaps
    cmp,    \* frame of virCompareLimitUlong
    mv      \* frame of virManageVport and the sysfs control files

vars == <<me, cred, sug, acc, p, c, fs, fc, io, dc, wc, cmp, mv>>

----------------------------------------------------------------------------
(* Bounds of the model *)

\* largest uid/gid number used; ids are 0 (root) .. MaxId
MaxId == 1
\* how often one call may see EINTR / ERANGE before the model stops injecting it
MaxRetry == 1

----------------------------------------------------------------------------
(* Program constants *)

EPERM == 1
EINTR == 4
ENOMEM == 12
EACCES == 13
EINVAL == 22
\* (uid_t)-1 / (gid_t)-1: "do not change"
NoId == -1
\* the byte an exit status has to fit in
ExitMask == 255

Ids == 0..MaxId
IdArgs == Ids \cup {NoId}

\* an errno that does not fit the exit status byte (errno is not < 255
\* everywhere), and an errno that is neither permission-class nor special
WideErrno == {300}
PlainErrno == {2}

Idle == [pc |-> "idle"]

----------------------------------------------------------------------------
(* virSetUIDGID *)

\* the passwd entry getpwuid_r finds for uid: its primary group
PwGid(uid) == uid

\* what the kernel permits an unprivileged process
MaySetregid(cr, gid) == cr.euid = 0 \/ gid \in {cr.rgid, cr.egid}
MaySetreuid(cr, uid) == cr.euid = 0 \/ uid \in {cr.ruid, cr.euid}
MayInitgroups(cr) == cr.euid = 0

\* the results a system call can give: 0 when permitted, EPERM when not,
\* and a failure for another reason at any time
SysOutcomes(permitted, other) ==
    (IF permitted THEN {0} ELSE {EPERM}) \cup other

SUG_Call(uid, gid, caller) ==
    [pc |-> "setregid", uid |-> uid, gid |-> gid, err |-> 0, ret |-> 0,
     errno |-> 0, seq |-> <<>>, failed |-> "", tries |-> 0, caller |-> caller]

\* where the code continues after the gid part: the uid part or the end
SUG_AfterGid(s) == IF s.uid # NoId THEN "getpw" ELSE "ok"

\* the frame after setregid failed with e: err = errno; goto error
SUG_SetregidFailed_NoGoto(s, e) ==
    [s EXCEPT !.err = e, !.failed = "setregid", !.pc = SUG_AfterGid(s)]
SUG_SetregidFailed(s, e) ==
    [s EXCEPT !.err = e, !.failed = "setregid", !.pc = "error"]

SUG_Setregid ==
    /\ sug.pc = "setregid"
    /\ IF sug.gid = NoId
       THEN /\ sug' = [sug EXCEPT !.pc = SUG_AfterGid(sug)]
            /\ UNCHANGED cred
       ELSE \E e \in SysOutcomes(MaySetregid(cred, sug.gid), {EINVAL}) :
              LET s1 == [sug EXCEPT !.seq = Append(@, "setregid")] IN
              IF e = 0
              THEN /\ cred' = [cred EXCEPT !.rgid = sug.gid, !.egid = sug.gid]
                   /\ sug' = [s1 EXCEPT !.pc = SUG_AfterGid(sug)]
              ELSE /\ sug' = SUG_SetregidFailed(s1, e)
                   /\ UNCHANGED cred
    /\ UNCHANGED <<me, acc, p, c, fs, fc, io, dc, wc, cmp, mv>>

\* VIR_ALLOC_N, then getpwuid_r until it stops answering ERANGE
SUG_Getpw ==
    /\ sug.pc = "getpw"
    /\ \E o \in {"oom", "erange", "rc", "nouser", "found"} :
         LET s1 == [sug EXCEPT !.seq = Append(@, "getpwuid_r")] IN
         CASE o = "oom" ->
                \* VIR_ALLOC_N or VIR_RESIZE_N failed
                sug' = [sug EXCEPT !.err = ENOMEM, !.failed = "alloc", !.pc = "error"]
           [] o = "erange" ->
                /\ sug.tries < MaxRetry
                /\ sug' = [sug EXCEPT !.tries = @ + 1]
           [] o = "rc" ->
                \E e \in {ENOMEM} :
                  sug' = [s1 EXCEPT !.err = e, !.failed = "getpwuid_r", !.pc = "error"]
           [] o = "nouser" ->
                sug' = [s1 EXCEPT !.err = EINVAL, !.failed = "getpwuid_r", !.pc = "error"]
           [] o = "found" ->
                sug' = [s1 EXCEPT !.pc = "initgroups"]
    /\ UNCHANGED <<me, cred, acc, p, c, fs, fc, io, dc, wc, cmp, mv>>

SUG_Initgroups ==
    /\ sug.pc = "initgroups"
    /\ \E e \in SysOutcomes(MayInitgroups(cred), {ENOMEM}) :
         LET s1 == [sug EXCEPT !.seq = Append(@, "initgroups")] IN
         IF e = 0
         THEN /\ cred' = [cred EXCEPT !.groups = {PwGid(sug.uid)}]
              /\ sug' = [s1 EXCEPT !.pc = "setreuid"]
         ELSE /\ sug' = [s1 EXCEPT !.err = e, !.failed = "initgroups", !.pc = "error"]
              /\ UNCHANGED cred
    /\ UNCHANGED <<me, acc, p, c, fs, fc, io, dc, wc, cmp, mv>>

SUG_Setreuid ==
    /\ sug.pc = "setreuid"
    /\ \E e \in SysOutcomes(MaySetreuid(cred, sug.uid), {EINVAL}) :
         LET s1 == [sug EXCEPT !.seq = Append(@, "setreuid")] IN
         IF e = 0
         THEN /\ cred' = [cred EXCEPT !.ruid = sug.uid, !.euid = sug.uid]
              /\ sug' = [s1 EXCEPT !.pc = "ok"]
         ELSE /\ sug' = [s1 EXCEPT !.err = e, !.failed = "setreuid", !.pc = "error"]
              /\ UNCHANGED cred
    /\ UNCHANGED <<me, acc, p, c, fs, fc, io, dc, wc, cmp, mv>>

\* return 0
SUG_Return ==
    /\ sug.pc = "ok"
    /\ sug' = [sug EXCEPT !.pc = "done", !.ret = 0]
    /\ UNCHANGED <<me, cred, acc, p, c, fs, fc, io, dc, wc, cmp, mv>>

\* error: errno = err; return -1
SUG_Error ==
    /\ sug.pc = "error"
    /\ sug' = [sug EXCEPT !.pc = "done", !.ret = -1, !.errno = sug.err]
    /\ UNCHANGED <<me, cred, acc, p, c, fs, fc, io, dc, wc, cmp, mv>>

NextSUG ==
    \/ SUG_Setregid
    \/ SUG_Getpw
    \/ SUG_Initgroups
    \/ SUG_Setreuid
    \/ SUG_Return
    \/ SUG_Error

\* the credentials of a process with real ids id
CredOf(id) ==
    [ruid |-> id.uid, euid |-> id.uid, rgid |-> id.gid, egid |-> id.gid,
     groups |-> {id.gid}]

\* the identities a caller can have: root, root in another group, and a user
Callers ==
    { [uid |-> 0, gid |-> 0], [uid |-> 0, gid |-> MaxId],
      [uid |-> MaxId, gid |-> MaxId] }

\* a process calls virSetUIDGID(uid, gid)
InitSUG ==
    /\ me \in Callers
    /\ cred = CredOf(me)
    /\ \E u \in IdArgs, g \in IdArgs : sug = SUG_Call(u, g, "top")
    /\ acc = Idle /\ p = Idle /\ c = Idle /\ fs = Idle /\ fc = Idle /\ io = Idle /\ dc = Idle /\ wc = Idle /\ cmp = Idle /\ mv = Idle

SpecSUG == InitSUG /\ [][NextSUG]_vars

----------------------------------------------------------------------------
(* The forked child and the wait status *)

\* wait status encoding: a normal exit carries the exit code in bits 8..15,
\* a death by signal carries the signal number in the low seven bits
StatusExited(code) == (code % 256) * 256
StatusSignaled(sig) == sig
WIFEXITED(st) == st % 128 = 0
WEXITSTATUS(st) == (st \div 256) % 256
\* the signal a child may be killed with (SIGKILL)
KillSignals == {9}

\* if ((ret & 0xFF) != ret) ret = 0xFF, with the bug of letting the value wrap
ClampExit_Wrap(ret) == ret % (ExitMask + 1)
\* if ((ret & 0xFF) != ret) { VIR_WARN(...); ret = 0xFF; }
ClampExit(ret) == IF ret % (ExitMask + 1) # ret THEN ExitMask ELSE ret

\* the child process as virFork leaves it: forkRet < 0 when the set-up after
\* the fork failed (errno tells why)
NewChild(kind, forkRet, errno) ==
    [pc |-> "c_start", kind |-> kind, forkRet |-> forkRet, errno |-> errno,
     ret |-> 0, fd |-> -1, open |-> {}, status |-> -1,
     cause |-> 0, switched |-> FALSE, switchFailed |-> FALSE, ops |-> <<>>,
     sent |-> FALSE, eintr |-> 0, forceFailed |-> FALSE]

ChildAlive == c.pc \notin {"idle", "c_dead", "c_reaped"}
ChildDead == c.pc = "c_dead"

\* what is left of a child once its parent has collected it: the process is
\* gone; its status and the errno it failed with are remembered, and of the
\* short-lived access() child also the calls it made
Reaped(ch) ==
    IF ch.kind = "access"
    THEN [ch EXCEPT !.pc = "c_reaped"]
    ELSE [pc |-> "c_reaped", kind |-> ch.kind, status |-> ch.status,
          cause |-> ch.cause, switchFailed |-> ch.switchFailed, sent |-> FALSE,
          forceFailed |-> ch.forceFailed]

\* the places where the model lets a signal kill the child: before it did
\* anything, with the file open and not yet sent, and on its way to _exit;
\* to the parent a kill anywhere else looks like one of these
KillPoints == {"c_start", "c_send", "c_exit"}

\* the child is killed by a signal before it reaches _exit
CH_Killed ==
    /\ c.pc \in KillPoints
    /\ \E sig \in KillSignals :
         c' = [c EXCEPT !.pc = "c_dead", !.status = StatusSignaled(sig),
                        !.open = {}, !.fd = -1, !.eintr = 0]
    /\ UNCHANGED <<me, cred, sug, acc, p, fs, fc, io, dc, wc, cmp, mv>>

\* virFork: fork failed (pid < 0), or the child exists and forkRet tells
\* whether its set-up succeeded
ForkOutcomes == {"nofork", "child", "childsetup"}
ForkErrno == {ENOMEM}

----------------------------------------------------------------------------
(* virFileAccessibleAs *)

AccessErrno == {EACCES} \cup WideErrno

ACC_Call(uid, gid) ==
    [pc |-> "start", uid |-> uid, gid |-> gid, pid |-> 0, status |-> 0,
     ret |-> 0, errno |-> 0, forkCalled |-> FALSE, waited |-> FALSE,
     direct |-> -2]

\* uid == getuid() && gid == getgid(), forgetting the group
SameIdentity_UidOnly(uid, gid) == uid = me.uid
\* uid == getuid() && gid == getgid()
SameIdentity(uid, gid) == uid = me.uid /\ gid = me.gid

\* return access(path, mode)
ACC_Direct ==
    /\ acc.pc = "start"
    /\ SameIdentity(acc.uid, acc.gid)
    /\ \E e \in {0} \cup AccessErrno :
         acc' = [acc EXCEPT !.pc = "done",
                            !.ret = IF e = 0 THEN 0 ELSE -1,
                            !.errno = e,
                            !.direct = IF e = 0 THEN 0 ELSE -1]
    /\ UNCHANGED <<me, cred, sug, p, c, fs, fc, io, dc, wc, cmp, mv>>

\* forkRet = virFork(&pid); if (pid < 0) return -1
ACC_Fork ==
    /\ acc.pc = "start"
    /\ ~ SameIdentity(acc.uid, acc.gid)
    /\ \E o \in ForkOutcomes, e \in ForkErrno :
         CASE o = "nofork" ->
                /\ acc' = [acc EXCEPT !.pc = "done", !.pid = -1, !.ret = -1,
                                      !.errno = e, !.forkCalled = TRUE]
                /\ UNCHANGED c
           [] o = "child" ->
                /\ acc' = [acc EXCEPT !.pc = "wait", !.pid = 1, !.forkCalled = TRUE]
                /\ c' = NewChild("access", 0, 0)
           [] o = "childsetup" ->
                /\ acc' = [acc EXCEPT !.pc = "wait", !.pid = 1, !.forkCalled = TRUE]
                /\ c' = NewChild("access", -1, e)
    /\ UNCHANGED <<me, cred, sug, p, fs, fc, io, dc, wc, cmp, mv>>

\* waitpid(pid, ..., 0) fails, EINTR aside, with ECHILD: the child has
\* terminated and was collected behind the caller's back (SIGCHLD ignored,
\* or another thread waiting)
WaitErrno == {10}

\* virProcessWait(pid, &status): waitpid until it is not interrupted; the
\* raw wait status is handed back; a failure has been reported and is -1
ACC_Wait ==
    /\ acc.pc = "wait"
    /\ ChildDead
    /\ \/ acc' = [acc EXCEPT !.pc = "status", !.status = c.status, !.waited = TRUE]
       \/ \E e \in WaitErrno :
            acc' = [acc EXCEPT !.pc = "done", !.ret = -1, !.errno = e]
    /\ c' = Reaped(c)
    /\ cred' = CredOf(me)
    /\ UNCHANGED <<me, sug, p, fs, fc, io, dc, wc, cmp, mv>>

\* if (!WIFEXITED(status)) { errno = EINTR; return -1; }
\* if (status) { errno = WEXITSTATUS(status); return -1; }  return 0;
ACC_Status ==
    /\ acc.pc = "status"
    /\ acc' = IF ~ WIFEXITED(acc.status)
              THEN [acc EXCEPT !.pc = "done", !.ret = -1, !.errno = EINTR]
              ELSE IF acc.status # 0
              THEN [acc EXCEPT !.pc = "done", !.ret = -1,
                               !.errno = WEXITSTATUS(acc.status)]
              ELSE [acc EXCEPT !.pc = "done", !.ret = 0]
    /\ UNCHANGED <<me, cred, sug, p, c, fs, fc, io, dc, wc, cmp, mv>>

\* child: if (forkRet < 0) { ret = errno; goto childerror; }  else it enters
\* virSetUIDGID(uid, gid)
AC_Start ==
    /\ c.pc = "c_start" /\ c.kind = "access"
    /\ IF c.forkRet < 0
       THEN /\ c' = [c EXCEPT !.pc = "c_exit", !.ret = c.errno, !.cause = c.errno]
            /\ UNCHANGED sug
       ELSE /\ c' = [c EXCEPT !.pc = "c_setuid"]
            /\ sug' = SUG_Call(acc.uid, acc.gid, "access")
    /\ UNCHANGED <<me, cred, acc, p, fs, fc, io, dc, wc, cmp, mv>>

\* child: if (virSetUIDGID(uid, gid) < 0) { ret = errno; goto childerror; }
AC_Switched ==
    /\ c.pc = "c_setuid" /\ c.kind = "access"
    /\ sug.pc = "done" /\ sug.caller = "access"
    /\ c' = IF sug.ret < 0
            THEN [c EXCEPT !.pc = "c_exit", !.ret = sug.errno, !.errno = sug.errno,
                           !.cause = sug.errno, !.switchFailed = TRUE]
            ELSE [c EXCEPT !.pc = "c_access", !.switched = TRUE]
    /\ sug' = Idle
    /\ UNCHANGED <<me, cred, acc, p, fs, fc, io, dc, wc, cmp, mv>>

\* child: if (access(path, mode) < 0) ret = errno;
AC_Access ==
    /\ c.pc = "c_access" /\ c.kind = "access"
    /\ \E e \in {0} \cup AccessErrno :
         c' = [c EXCEPT !.pc = "c_exit", !.ops = Append(@, "access"),
                        !.ret = IF e = 0 THEN c.ret ELSE e,
                        !.errno = IF e = 0 THEN c.errno ELSE e,
                        !.cause = e]
    /\ UNCHANGED <<me, cred, sug, acc, p, fs, fc, io, dc, wc, cmp, mv>>

\* childerror: clamp ret into the exit status byte; _exit(ret)
AC_Exit ==
    /\ c.pc = "c_exit" /\ c.kind = "access"
    /\ c' = [c EXCEPT !.pc = "c_dead", !.ret = ClampExit(c.ret),
                      !.status = StatusExited(ClampExit(c.ret)), !.open = {}]
    /\ UNCHANGED <<me, cred, sug, acc, p, fs, fc, io, dc, wc, cmp, mv>>

NextACC ==
    \/ ACC_Direct
    \/ ACC_Fork
    \/ ACC_Wait
    \/ ACC_Status
    \/ AC_Start
    \/ AC_Switched
    \/ AC_Access
    \/ AC_Exit
    \/ CH_Killed
    \/ NextSUG

\* a process with identity me calls virFileAccessibleAs(path, mode, uid, gid)
InitACC ==
    /\ me \in Callers
    /\ cred = CredOf(me)
    /\ \E u \in IdArgs, g \in IdArgs : acc = ACC_Call(u, g)
    /\ sug = Idle /\ p = Idle /\ c = Idle /\ fs = Idle /\ fc = Idle /\ io = Idle /\ dc = Idle /\ wc = Idle /\ cmp = Idle /\ mv = Idle

SpecACC == InitACC /\ [][NextACC]_vars

----------------------------------------------------------------------------
(* The file, its descriptors, and virFileOpenForceOwnerMode *)

\* S_IRWXU | S_IRWXG | S_IRWXO
PermMask == 511
\* the bits of a mode that chmod stores
ModeMask == 4095
RWX(mode) == mode % (PermMask + 1)

\* the mode a caller asks for (04600) and the modes a file is found with
\* (0600, the same rwx bits, and 0644)
ReqModes == {2432}
FileModes == {384, 420}
Files == { [uid |-> o.uid, gid |-> o.gid, mode |-> m] : o \in Callers, m \in FileModes }

\* the file a successful open() leaves behind: the file as it was, or, when
\* open() is the first to look, any file (found, or created under any owner
\* the file system assigns)
FilesAfterOpen == IF fs = Idle THEN Files ELSE {fs}

\* the lowest descriptor number not in use
Alloc(open) ==
    CHOOSE n \in 0..Cardinality(open) :
        n \notin open /\ \A m \in 0..(n - 1) : m \in open

OpenErrno == {EACCES, EPERM} \cup PlainErrno
StatErrno == {ENOMEM}
ForceOutcomes ==
    [fstat : {0} \cup StatErrno, fchown : {0, EPERM}, fchmod : {0, EPERM}]
NoForce == [fstat |-> 0, fchown |-> 0, fchmod |-> 0]

ForceFlags == {"FORCE_OWNER", "FORCE_MODE"}

\* virFileOpenForceOwnerMode comparing the whole mode instead of its rwx bits
\* and leaving a file alone whose mode it takes for right
ForceOwnerMode_NoChmod(f, mode, uid, gid, flags, o) ==
    IF flags \cap ForceFlags = {} THEN [ret |-> 0, fs |-> f]
    ELSE IF o.fstat # 0 THEN [ret |-> - o.fstat, fs |-> f]
    ELSE IF "FORCE_OWNER" \in flags /\ (f.uid # uid \/ f.gid # gid) /\ o.fchown # 0
         THEN [ret |-> - o.fchown, fs |-> f]
    ELSE [ret |-> 0,
          fs |-> IF "FORCE_OWNER" \in flags
                 THEN [f EXCEPT !.uid = uid, !.gid = gid] ELSE f]

\* virFileOpenForceOwnerMode(path, fd, mode, uid, gid, flags) on file f, the
\* system calls answering o: the value returned and the file afterwards
ForceOwnerMode(f, mode, uid, gid, flags, o) ==
    IF flags \cap ForceFlags = {} THEN [ret |-> 0, fs |-> f]
    ELSE IF o.fstat # 0 THEN [ret |-> - o.fstat, fs |-> f]
    ELSE IF "FORCE_OWNER" \in flags /\ (f.uid # uid \/ f.gid # gid) /\ o.fchown # 0
         THEN [ret |-> - o.fchown, fs |-> f]
    ELSE LET f1 == IF "FORCE_OWNER" \in flags /\ (f.uid # uid \/ f.gid # gid)
                   THEN [f EXCEPT !.uid = uid, !.gid = gid] ELSE f
             chmod == "FORCE_MODE" \in flags /\ RWX(mode) # RWX(f.mode)
         IN  IF chmod /\ o.fchmod # 0 THEN [ret |-> - o.fchmod, fs |-> f1]
             ELSE [ret |-> 0,
                   fs |-> IF chmod THEN [f1 EXCEPT !.mode = mode % (ModeMask + 1)]
                          ELSE f1]

----------------------------------------------------------------------------
(* virFileOpenAs: the parent *)

ForkFlags == {"NOFORK", "FORK"}
OpenFlags == ForkFlags \cup ForceFlags

OA_Call(uid, gid, flags, mode) ==
    [pc |-> "start", uid |-> uid, gid |-> gid, flags |-> flags, mode |-> mode,
     ret |-> 0, fd |-> -1, errno |-> 0, open |-> {},
     \* locals of virFileOpenForked
     fret |-> 0, ffd |-> -1, pair0 |-> -1, pair1 |-> -1, pid |-> 0,
     waitret |-> 0, status |-> 0, eintr |-> 0,
     \* what the caller gets
     retval |-> 0, reported |-> 0,
     \* history of the call
     asked |-> flags, directTried |-> FALSE, directErr |-> 0, forkCalled |-> FALSE,
     shared |-> -2, opens |-> 0, waited |-> FALSE]

\* if (uid == (uid_t) -1) uid = getuid();
Resolve(id, current) == IF id = NoId THEN current ELSE id

\* the flags left as the caller gave them
NormaliseFlags_Keep(flags) == flags
\* if (!(flags & (NOFORK|FORK))) flags |= NOFORK|FORK;
NormaliseFlags(flags) ==
    IF flags \cap ForkFlags = {} THEN flags \cup ForkFlags ELSE flags

\* the frame after the preamble of virFileOpenAs
AfterStart(f) ==
    [f EXCEPT !.pc = "direct",
              !.uid = Resolve(f.uid, me.uid),
              !.gid = Resolve(f.gid, me.gid),
              !.flags = NormaliseFlags(f.flags)]

OA_Start ==
    /\ p.pc = "start"
    /\ p' = AfterStart(p)
    /\ UNCHANGED <<me, cred, sug, acc, c, fs, fc, io, dc, wc, cmp, mv>>

\* the test without its last part
TryDirect_NoRootTarget(f) == "NOFORK" \in f.flags \/ me.uid # 0
\* (flags & NOFORK) || getuid() != 0 || (uid == 0 && gid == 0)
TryDirect(f) ==
    "NOFORK" \in f.flags \/ me.uid # 0 \/ (f.uid = 0 /\ f.gid = 0)

\* fd = open(path, openflags, mode), failing: ret = -errno
OA_DirectOpenFails ==
    /\ p.pc = "direct" /\ TryDirect(p)
    /\ \E e \in OpenErrno :
         p' = [p EXCEPT !.pc = "forkcheck", !.ret = - e, !.errno = e,
                        !.directTried = TRUE, !.directErr = e,
                        !.opens = @ + 1]
    /\ UNCHANGED <<me, cred, sug, acc, c, fs, fc, io, dc, wc, cmp, mv>>

\* fd = open(path, openflags, mode), succeeding
OA_DirectOpen ==
    /\ p.pc = "direct" /\ TryDirect(p)
    /\ fs' \in FilesAfterOpen
    /\ p' = [p EXCEPT !.pc = "dforce", !.fd = Alloc(p.open),
                      !.open = @ \cup {Alloc(p.open)},
                      !.directTried = TRUE, !.opens = @ + 1]
    /\ UNCHANGED <<me, cred, sug, acc, c, fc, io, dc, wc, cmp, mv>>

\* no direct attempt: root asked to open as somebody else, FORK alone
OA_SkipDirect ==
    /\ p.pc = "direct" /\ ~ TryDirect(p)
    /\ p' = [p EXCEPT !.pc = "forkcheck"]
    /\ UNCHANGED <<me, cred, sug, acc, c, fs, fc, io, dc, wc, cmp, mv>>

\* ret = virFileOpenForceOwnerMode(...); if (ret < 0) goto error;
OA_DirectForce ==
    /\ p.pc = "dforce"
    /\ \E o \in ForceOutcomes :
         LET r == ForceOwnerMode(fs, p.mode, p.uid, p.gid, p.flags, o) IN
         /\ fs' = r.fs
         /\ p' = [p EXCEPT !.pc = IF r.ret < 0 THEN "error" ELSE "forkcheck",
                           !.ret = r.ret,
                           !.errno = IF r.ret < 0 THEN - r.ret ELSE @]
    /\ UNCHANGED <<me, cred, sug, acc, c, fc, io, dc, wc, cmp, mv>>

\* if ((fd < 0) && (flags & VIR_FILE_OPEN_FORK))
WantFork(f) == f.fd < 0 /\ "FORK" \in f.flags

\* the fork block is skipped: return fd
OA_ReturnFd ==
    /\ p.pc = "forkcheck" /\ ~ WantFork(p)
    /\ p' = [p EXCEPT !.pc = "done", !.retval = p.fd]
    /\ UNCHANGED <<me, cred, sug, acc, c, fs, fc, io, dc, wc, cmp, mv>>

\* any failure of open() counted as one a fork could remedy
PermissionError_Any(ret) == ret < 0
\* !(ret != -EACCES && ret != -EPERM)
PermissionError(ret) == ret \in {- EACCES, - EPERM}

\* if (ret != -EACCES && ret != -EPERM) goto error;
OA_NotPermission ==
    /\ p.pc = "forkcheck" /\ WantFork(p)
    /\ p.ret < 0 /\ ~ PermissionError(p.ret)
    /\ p' = [p EXCEPT !.pc = "error"]
    /\ UNCHANGED <<me, cred, sug, acc, c, fs, fc, io, dc, wc, cmp, mv>>

SharedErrno == PlainErrno

\* switch (virStorageFileIsSharedFS(path)): 1 retries with a fork, -1
\* reports errno and fails, 0 fails
OA_SharedFS ==
    /\ p.pc = "forkcheck" /\ WantFork(p)
    /\ p.ret < 0 /\ PermissionError(p.ret)
    /\ \/ p' = [p EXCEPT !.pc = "socketpair", !.shared = 1]
       \/ p' = [p EXCEPT !.pc = "error", !.shared = 0]
       \/ \E e \in SharedErrno :
            p' = [p EXCEPT !.pc = "error", !.shared = -1, !.errno = e, !.reported = e]
    /\ UNCHANGED <<me, cred, sug, acc, c, fs, fc, io, dc, wc, cmp, mv>>

\* no direct attempt was made (ret == 0): fork at once
OA_ForkFirst ==
    /\ p.pc = "forkcheck" /\ WantFork(p)
    /\ p.ret >= 0
    /\ p' = [p EXCEPT !.pc = "socketpair"]
    /\ UNCHANGED <<me, cred, sug, acc, c, fs, fc, io, dc, wc, cmp, mv>>

\* error: if (fd < 0) virReportSystemError(-ret, ...); else
\* VIR_FORCE_CLOSE(fd);  return ret;
ErrorExit(f) ==
    IF f.fd < 0
    THEN [f EXCEPT !.pc = "done", !.retval = f.ret, !.reported = - f.ret]
    ELSE [f EXCEPT !.pc = "done", !.retval = f.ret, !.fd = -1,
                   !.open = @ \ {f.fd}]

OA_Error ==
    /\ p.pc = "error"
    /\ p' = ErrorExit(p)
    /\ UNCHANGED <<me, cred, sug, acc, c, fs, fc, io, dc, wc, cmp, mv>>

\* virFileOpenForked returns val to virFileOpenAs, which returns in turn:
\* if ((fd = virFileOpenForked(...)) < 0) { ret = fd; fd = -1; goto error; }
\* return fd;
ForkedReturn(f, val) ==
    IF val < 0
    THEN ErrorExit([f EXCEPT !.fret = val, !.ret = val, !.fd = -1])
    ELSE [f EXCEPT !.pc = "done", !.fret = val, !.fd = val, !.retval = val]

----------------------------------------------------------------------------
(* virFileOpenForked: the parent *)

SocketErrno == {ENOMEM}
RecvErrno == {EACCES, 107}

\* socketpair(AF_UNIX, SOCK_STREAM, 0, pair); on failure return -errno
OF_Socketpair ==
    /\ p.pc = "socketpair"
    /\ \/ LET a == Alloc(p.open)
              b == Alloc(p.open \cup {a})
          IN  p' = [p EXCEPT !.pc = "fork", !.pair0 = a, !.pair1 = b,
                             !.open = @ \cup {a, b}]
       \/ \E e \in SocketErrno :
            p' = ForkedReturn([p EXCEPT !.errno = e, !.reported = e], - e)
    /\ UNCHANGED <<me, cred, sug, acc, c, fs, fc, io, dc, wc, cmp, mv>>

\* the parent goes on to recvfd with its copy of pair[1] still open
ParentAfterFork_KeepsEnd(f) ==
    [f EXCEPT !.pc = "recv", !.pid = 1, !.forkCalled = TRUE]
\* parent, pid > 0: VIR_FORCE_CLOSE(pair[1]); and on to recvfd
ParentAfterFork(f) ==
    [f EXCEPT !.pc = "recv", !.pid = 1, !.forkCalled = TRUE,
              !.open = @ \ {f.pair1}, !.pair1 = -1]

\* forkRet = virFork(&pid); if (pid < 0) return -errno;
\* in the parent the fork is followed by closing pair[1]
OF_Fork ==
    /\ p.pc = "fork"
    /\ \E o \in ForkOutcomes, e \in ForkErrno :
         CASE o = "nofork" ->
                /\ p' = ForkedReturn([p EXCEPT !.pid = -1, !.errno = e], - e)
                /\ UNCHANGED c
           [] o = "child" ->
                /\ p' = ParentAfterFork(p)
                /\ c' = [NewChild("open", 0, 0) EXCEPT !.open = p.open]
           [] o = "childsetup" ->
                /\ p' = ParentAfterFork(p)
                /\ c' = [NewChild("open", -1, e) EXCEPT !.open = p.open]
    /\ UNCHANGED <<me, cred, sug, acc, fs, fc, io, dc, wc, cmp, mv>>

\* the end of the socket the child writes to is closed in every process
ChannelHungUp == p.pair1 = -1 /\ ~ ChildAlive

\* do { fd = recvfd(pair[0], 0); } while (fd < 0 && errno == EINTR);
\* VIR_FORCE_CLOSE(pair[0]);
\* if (fd < 0 && errno != EACCES) { ret = -errno; ... } : on to the quiet wait
OF_Recv ==
    /\ p.pc = "recv"
    /\ \/ /\ p.eintr < MaxRetry /\ ~ c.sent /\ ~ ChannelHungUp
          /\ p' = [p EXCEPT !.eintr = @ + 1]
          /\ UNCHANGED c
       \/ /\ c.sent
          /\ LET q == p.open \ {p.pair0} IN
             p' = [p EXCEPT !.pc = "wait", !.ffd = Alloc(p.open),
                            !.open = q \cup {Alloc(p.open)}, !.pair0 = -1,
                            !.eintr = 0]
          /\ c' = [c EXCEPT !.sent = FALSE]
       \/ /\ c.sent \/ ChannelHungUp
          /\ \E e \in RecvErrno :
               p' = [p EXCEPT !.pc = IF e # EACCES THEN "waitquiet" ELSE "wait",
                              !.ffd = -1, !.errno = e,
                              !.fret = IF e # EACCES THEN - e ELSE @,
                              !.open = @ \ {p.pair0}, !.pair0 = -1, !.eintr = 0]
          /\ c' = [c EXCEPT !.sent = FALSE]
    /\ UNCHANGED <<me, cred, sug, acc, fs, fc, io, dc, wc, cmp, mv>>

\* while (waitpid(pid, NULL, 0) == -1 && errno == EINTR);  return ret;
OF_WaitQuiet ==
    /\ p.pc = "waitquiet"
    /\ \/ /\ p.eintr < MaxRetry
          /\ p' = [p EXCEPT !.eintr = @ + 1]
          /\ UNCHANGED <<c, cred>>
       \/ /\ ChildDead
          /\ \/ p' = ForkedReturn([p EXCEPT !.eintr = 0], p.fret)
             \/ \E e \in WaitErrno :
                  p' = ForkedReturn([p EXCEPT !.errno = e, !.eintr = 0], p.fret)
          /\ c' = Reaped(c)
          /\ cred' = CredOf(me)
    /\ UNCHANGED <<me, sug, acc, fs, fc, io, dc, wc, cmp, mv>>

\* waitret = (waitpid(pid, &status, 0) == -1): the comparison binds tighter
\* than the assignment, so waitret is 1 or 0, never -1
WaitRet(rc) == IF rc = -1 THEN 1 ELSE 0

\* waitpid failed with EINTR and the loop ends, the child not waited for
WaitInterrupted_Returns(f) ==
    [f EXCEPT !.pc = "waited", !.errno = EINTR, !.waitret = WaitRet(-1)]
\* waitpid failed with EINTR: the loop calls it again
WaitInterrupted(f) == [f EXCEPT !.eintr = @ + 1, !.waitret = WaitRet(-1)]

\* the wait statuses an uninitialised int may be read as
StatusValues ==
    {StatusExited(0), StatusExited(EACCES), StatusExited(EPERM)}
        \cup {StatusSignaled(sig) : sig \in KillSignals}

\* while ((waitret = waitpid(pid, &status, 0) == -1) && (errno == EINTR));
\* when waitpid fails, status is left as it was: not initialised
OF_Wait ==
    /\ p.pc = "wait"
    /\ \/ /\ p.eintr < MaxRetry
          /\ p' = WaitInterrupted(p)
          /\ UNCHANGED <<c, cred>>
       \/ /\ ChildDead
          /\ \/ p' = [p EXCEPT !.pc = "waited", !.status = c.status,
                               !.waitret = WaitRet(p.pid), !.eintr = 0,
                               !.waited = TRUE]
             \/ \E e \in WaitErrno, st \in StatusValues :
                  p' = [p EXCEPT !.pc = "waited", !.status = st, !.errno = e, !.waitret = WaitRet(-1),
                                 !.eintr = 0]
          /\ c' = Reaped(c)
          /\ cred' = CredOf(me)
    /\ UNCHANGED <<me, sug, acc, fs, fc, io, dc, wc, cmp, mv>>

\* the forked attempt given up only when the child exited with EACCES
FallBack_DeniedOnly(f) ==
    WIFEXITED(f.status) /\ - WEXITSTATUS(f.status) = - EACCES
\* !WIFEXITED(status) || (ret = -WEXITSTATUS(status)) == -EACCES || fd == -1
FallBack(f) ==
    \/ ~ WIFEXITED(f.status)
    \/ - WEXITSTATUS(f.status) = - EACCES
    \/ f.ffd = -1

\* if (waitret == -1) { ret = -errno; VIR_FORCE_CLOSE(fd); return ret; }
\* if (!WIFEXITED(status) || (ret = -WEXITSTATUS(status)) == -EACCES ||
\*     fd == -1) { VIR_FORCE_CLOSE(fd);
\*                 if (flags & VIR_FILE_OPEN_NOFORK) return -EACCES;  ... }
\* return fd;
OF_Decide ==
    /\ p.pc = "waited"
    /\ LET closed == [p EXCEPT !.open = @ \ {p.ffd}, !.ffd = -1]
       IN  p' = IF p.waitret = -1
                THEN ForkedReturn(closed, - p.errno)
                ELSE IF FallBack(p)
                THEN IF "NOFORK" \in p.flags
                     THEN ForkedReturn(closed, - EACCES)
                     ELSE [closed EXCEPT !.pc = "fallback"]
                ELSE ForkedReturn(p, p.ffd)
    /\ UNCHANGED <<me, cred, sug, acc, c, fs, fc, io, dc, wc, cmp, mv>>

\* if ((fd = open(path, openflags, mode)) < 0) return -errno;
OF_FallbackOpen ==
    /\ p.pc = "fallback"
    /\ \/ /\ \E e \in OpenErrno :
               p' = ForkedReturn([p EXCEPT !.errno = e, !.opens = @ + 1], - e)
          /\ UNCHANGED fs
       \/ /\ fs' \in FilesAfterOpen
          /\ p' = [p EXCEPT !.pc = "fforce", !.ffd = Alloc(p.open),
                            !.open = @ \cup {Alloc(p.open)}, !.opens = @ + 1]
    /\ UNCHANGED <<me, cred, sug, acc, c, fc, io, dc, wc, cmp, mv>>

\* ret = virFileOpenForceOwnerMode(...);
\* if (ret < 0) { VIR_FORCE_CLOSE(fd); return ret; }  return fd;
OF_FallbackForce ==
    /\ p.pc = "fforce"
    /\ \E o \in ForceOutcomes :
         LET r == ForceOwnerMode(fs, p.mode, p.uid, p.gid, p.flags, o) IN
         /\ fs' = r.fs
         /\ p' = IF r.ret < 0
                 THEN ForkedReturn([p EXCEPT !.errno = - r.ret,
                                             !.open = @ \ {p.ffd}, !.ffd = -1],
                                   r.ret)
                 ELSE ForkedReturn(p, p.ffd)
    /\ UNCHANGED <<me, cred, sug, acc, c, fc, io, dc, wc, cmp, mv>>

----------------------------------------------------------------------------
(* virFileOpenForked: the child *)

ChildOpenErrno == {EACCES} \cup PlainErrno \cup WideErrno
SendErrno == {ENOMEM}

\* child: VIR_FORCE_CLOSE(pair[0]);
\* if (forkRet < 0) { ret = -errno; goto childerror; }  else it enters
\* virSetUIDGID(uid, gid)
OC_Start ==
    /\ c.pc = "c_start" /\ c.kind = "open"
    /\ LET c1 == [c EXCEPT !.open = @ \ {p.pair0}, !.ops = Append(@, "close")] IN
       IF c.forkRet < 0
       THEN /\ c' = [c1 EXCEPT !.pc = "c_exit", !.ret = - c.errno, !.cause = c.errno]
            /\ UNCHANGED sug
       ELSE /\ c' = [c1 EXCEPT !.pc = "c_setuid"]
            /\ sug' = SUG_Call(p.uid, p.gid, "open")
    /\ UNCHANGED <<me, cred, acc, p, fs, fc, io, dc, wc, cmp, mv>>

\* the child going on to open() although virSetUIDGID failed
SwitchFailed_GoesOn(ch, e) ==
    [ch EXCEPT !.pc = "c_open", !.switchFailed = TRUE,
               !.ops = Append(@, "switch")]
\* the child after virSetUIDGID failed with e: ret = -errno; goto childerror;
SwitchFailed(ch, e) ==
    [ch EXCEPT !.pc = "c_exit", !.ret = - e, !.errno = e, !.cause = e,
               !.switchFailed = TRUE, !.ops = Append(@, "switch")]

\* child: if (virSetUIDGID(uid, gid) < 0) { ret = -errno; goto childerror; }
OC_Switched ==
    /\ c.pc = "c_setuid" /\ c.kind = "open"
    /\ sug.pc = "done" /\ sug.caller = "open"
    /\ c' = IF sug.ret < 0
            THEN SwitchFailed(c, sug.errno)
            ELSE [c EXCEPT !.pc = "c_open", !.switched = TRUE,
                           !.ops = Append(@, "switch")]
    /\ sug' = Idle
    /\ UNCHANGED <<me, cred, acc, p, fs, fc, io, dc, wc, cmp, mv>>

\* child: if ((fd = open(path, openflags, mode)) < 0) { ret = -errno; ... }
OC_Open ==
    /\ c.pc = "c_open" /\ c.kind = "open"
    /\ \/ /\ \E e \in ChildOpenErrno :
               c' = [c EXCEPT !.pc = "c_exit", !.ret = - e, !.errno = e,
                              !.cause = e, !.ops = Append(@, "open")]
          /\ UNCHANGED fs
       \/ /\ fs' \in FilesAfterOpen
          /\ c' = [c EXCEPT !.pc = "c_force", !.fd = Alloc(c.open),
                            !.open = @ \cup {Alloc(c.open)},
                            !.ops = Append(@, "open")]
    /\ UNCHANGED <<me, cred, sug, acc, p, fc, io, dc, wc, cmp, mv>>

\* child: ret = virFileOpenForceOwnerMode(...); if (ret < 0) goto childerror;
OC_Force ==
    /\ c.pc = "c_force" /\ c.kind = "open"
    /\ \E o \in ForceOutcomes :
         LET r == ForceOwnerMode(fs, p.mode, p.uid, p.gid, p.flags, o) IN
         /\ fs' = r.fs
         /\ c' = [c EXCEPT !.pc = IF r.ret < 0 THEN "c_exit" ELSE "c_send",
                           !.ret = r.ret,
                           !.errno = IF r.ret < 0 THEN - r.ret ELSE @,
                           !.cause = IF r.ret < 0 THEN - r.ret ELSE @,
                           !.forceFailed = r.ret < 0,
                           !.ops = Append(@, "force")]
    /\ UNCHANGED <<me, cred, sug, acc, p, fc, io, dc, wc, cmp, mv>>

\* child: do { ret = sendfd(pair[1], fd); } while (ret < 0 && errno == EINTR);
\* if (ret < 0) { ret = -errno; goto childerror; }
OC_Send ==
    /\ c.pc = "c_send" /\ c.kind = "open"
    /\ \/ /\ c.eintr < MaxRetry
          /\ c' = [c EXCEPT !.eintr = @ + 1, !.ret = -1]
       \/ c' = [c EXCEPT !.pc = "c_exit", !.ret = 0, !.sent = TRUE,
                         !.ops = Append(@, "send")]
       \/ \E e \in SendErrno :
            c' = [c EXCEPT !.pc = "c_exit", !.ret = - e, !.errno = e, !.cause = e]
    /\ UNCHANGED <<me, cred, sug, acc, p, fs, fc, io, dc, wc, cmp, mv>>

\* childerror: VIR_FORCE_CLOSE(pair[1]); if (ret < 0) VIR_FORCE_CLOSE(fd);
\* ret = -ret; clamp ret into the exit status byte; _exit(ret)
OC_Exit ==
    /\ c.pc = "c_exit" /\ c.kind = "open"
    /\ c' = [c EXCEPT !.pc = "c_dead", !.ret = ClampExit(- c.ret),
                      !.status = StatusExited(ClampExit(- c.ret)),
                      !.open = {}, !.fd = -1, !.eintr = 0]
    /\ UNCHANGED <<me, cred, sug, acc, p, fs, fc, io, dc, wc, cmp, mv>>

NextOpen ==
    \/ OA_Start
    \/ OA_DirectOpenFails
    \/ OA_DirectOpen
    \/ OA_SkipDirect
    \/ OA_DirectForce
    \/ OA_ReturnFd
    \/ OA_NotPermission
    \/ OA_SharedFS
    \/ OA_ForkFirst
    \/ OA_Error
    \/ OF_Socketpair
    \/ OF_Fork
    \/ OF_Recv
    \/ OF_WaitQuiet
    \/ OF_Wait
    \/ OF_Decide
    \/ OF_FallbackOpen
    \/ OF_FallbackForce
    \/ OC_Start
    \/ OC_Switched
    \/ OC_Open
    \/ OC_Force
    \/ OC_Send
    \/ OC_Exit
    \/ CH_Killed
    \/ NextSUG

\* a process with identity me calls
\* virFileOpenAs(path, openflags, mode, uid, gid, flags)
InitOpen ==
    /\ me \in Callers
    /\ cred = CredOf(me)
    /\ \E u \in IdArgs, g \in IdArgs, f \in SUBSET OpenFlags, m \in ReqModes :
         p = OA_Call(u, g, f, m)
    /\ sug = Idle /\ acc = Idle /\ c = Idle /\ fs = Idle /\ fc = Idle /\ io = Idle /\ dc = Idle /\ wc = Idle /\ cmp = Idle /\ mv = Idle

SpecOpen == InitOpen /\ [][NextOpen]_vars

\* the steps of the forked child, virSetUIDGID in it and its death by a
\* signal included
ChildRuns ==
    \/ OC_Start \/ OC_Switched \/ OC_Open \/ OC_Force \/ OC_Send \/ OC_Exit
    \/ CH_Killed \/ NextSUG

\* the steps of the calling process
ParentRuns ==
    \/ OA_Start \/ OA_DirectOpenFails \/ OA_DirectOpen \/ OA_SkipDirect
    \/ OA_DirectForce \/ OA_ReturnFd \/ OA_NotPermission \/ OA_SharedFS
    \/ OA_ForkFirst \/ OA_Error \/ OF_Socketpair \/ OF_Fork \/ OF_Recv
    \/ OF_WaitQuiet \/ OF_Wait \/ OF_Decide \/ OF_FallbackOpen
    \/ OF_FallbackForce

\* both processes are scheduled: the child goes on until it has exited, and
\* the parent takes a step whenever one of its system calls can return; the
\* interruptions by EINTR are at most MaxRetry in a row
SpecOpenFair == SpecOpen /\ WF_vars(ChildRuns) /\ WF_vars(ParentRuns)

----------------------------------------------------------------------------
(* Strings, as the C library sees them *)

\* the characters that occur, in the order of their codes
Chars == <<"\n", "0", "1", "2", "9", "L", "O", "d", "e", "h", "i", "k", "l",
           "n", "o", "s", "t", "w", "x">>
Code(ch) == CHOOSE i \in 1..Len(Chars) : Chars[i] = ch
Digits == {"0", "1", "2", "9"}
DigitValue(ch) == CASE ch = "0" -> 0 [] ch = "1" -> 1 [] ch = "2" -> 2 [] ch = "9" -> 9

\* the suffix of s from its k-th character on (1-based), empty past the end
From(s, k) == SubSeq(s, k, Len(s))
Take(s, n) == SubSeq(s, 1, IF n < Len(s) THEN n ELSE Len(s))

\* strstr(s, t): the index of the first occurrence of t in s, 0 if none
StrStr(s, t) ==
    LET at == {i \in 1..(Len(s) - Len(t) + 1) : SubSeq(s, i, i + Len(t) - 1) = t}
    IN  IF at = {} THEN 0 ELSE CHOOSE i \in at : \A j \in at : i <= j

\* strcmp(a, b): negative, zero or positive
RECURSIVE StrCmp(_, _)
StrCmp(a, b) ==
    IF a = <<>> /\ b = <<>> THEN 0
    ELSE IF a = <<>> THEN -1
    ELSE IF b = <<>> THEN 1
    ELSE IF Head(a) # Head(b) THEN Code(Head(a)) - Code(Head(b))
    ELSE StrCmp(Tail(a), Tail(b))

\* the value of a string of decimal digits
RECURSIVE DecValue(_)
DecValue(s) ==
    IF s = <<>> THEN 0
    ELSE 10 * DecValue(SubSeq(s, 1, Len(s) - 1)) + DigitValue(s[Len(s)])
IsDecimal(s) == s # <<>> /\ \A i \in 1..Len(s) : s[i] \in Digits

\* virStrToLong_ui(s, NULL, 10, &result) on the names that occur: the whole
\* string has to be a number
StrToLong_ui(s) ==
    IF IsDecimal(s) THEN [ret |-> 0, result |-> DecValue(s)]
    ELSE [ret |-> -1, result |-> 0]

----------------------------------------------------------------------------
(* virReadFCHost, virIsCapableVport, virFindFCHostCapableVport *)

\* sizeof(buf) of a char *buf
PtrSize == 8
NoFile == <<"?">>
NULL == <<>>

HostName(d) == <<"h", "o", "s", "t">> \o d
Online == <<"O", "n", "l", "i", "n", "e">>

\* the directories readdir may list: entries in the order they are handed out
Dirs ==
    { << <<".">>, HostName(<<"0">>), HostName(<<"1">>) >>,
      << HostName(<<"1">>), HostName(<<"x">>), HostName(<<"0">>) >>,
      << HostName(<<"1", "0">>) >> }

\* what the sysfs attributes may read as
StateFiles == { Online \o <<"\n">>, <<"L", "i", "n", "k", "d", "o", "w", "n", "\n">> }
CountFiles == { <<"2", "\n">>, <<"9", "\n">>, <<"1", "0", "\n">>,
                <<"0", "x", "1", "0", "\n">> }

\* the sets of host numbers N for which a file named host<N>vport_create
\* lies in the fc_host or the scsi_host directory
OddFiles == { {}, {1} }

\* virReadFCHost(prefix, host, entry, &result) when the attribute reads as
\* content: cut at the first newline, skip through the first "0x", keep at
\* most sizeof(buf) characters
ReadFCHost(content) ==
    IF content = NoFile THEN [ret |-> -1, result |-> NULL]
    ELSE LET nl == StrStr(content, <<"\n">>)
             buf == IF nl > 0 THEN Take(content, nl - 1) ELSE content
             hex == StrStr(buf, <<"0", "x">>)
             q == IF hex > 0 THEN From(buf, hex + 2) ELSE buf
         IN  [ret |-> 0, result |-> Take(q, PtrSize)]

\* virIsCapableVport(prefix, host): the path is formatted "%shost%d%s" with
\* "vport_create" for the last part, no "/" in between; 0 if it exists
IsCapableVport(odd, host) == IF host \in odd THEN 0 ELSE -1

FC_Call(dir, odd) ==
    [pc |-> "opendir", dir |-> dir, odd |-> odd, idx |-> 1, host |-> 0,
     max_vports |-> NULL, vports |-> NULL, ret |-> NULL, seen |-> <<>>]

\* if (!(dir = opendir(prefix))) { report; return NULL; }
FC_Opendir ==
    /\ fc.pc = "opendir"
    /\ \/ fc' = [fc EXCEPT !.pc = "readdir"]
       \/ fc' = [fc EXCEPT !.pc = "done"]
    /\ UNCHANGED <<me, cred, sug, acc, p, c, fs, io, dc, wc, cmp, mv>>

\* continue: on to the next entry
NextEntry(f) == [f EXCEPT !.pc = "readdir", !.idx = @ + 1]

\* while ((entry = readdir(dir))): entries starting with '.', entries whose
\* tail is no number, and hosts for which !virIsCapableVport(NULL, host)
\* holds are passed over
FC_Readdir ==
    /\ fc.pc = "readdir" /\ fc.idx <= Len(fc.dir)
    /\ LET name == fc.dir[fc.idx]
           n == StrToLong_ui(From(name, 5))
       IN  fc' = IF name[1] = "." THEN NextEntry(fc)
                 ELSE IF n.ret = -1 THEN NextEntry(fc)
                 ELSE IF IsCapableVport(fc.odd, n.result) = 0
                 THEN NextEntry([fc EXCEPT !.host = n.result])
                 ELSE [fc EXCEPT !.pc = "state", !.host = n.result]
    /\ UNCHANGED <<me, cred, sug, acc, p, c, fs, io, dc, wc, cmp, mv>>

\* readdir returns NULL; cleanup: closedir, free, return ret
FC_End ==
    /\ fc.pc = "readdir" /\ fc.idx > Len(fc.dir)
    /\ fc' = [fc EXCEPT !.pc = "done"]
    /\ UNCHANGED <<me, cred, sug, acc, p, c, fs, io, dc, wc, cmp, mv>>

\* virReadFCHost(NULL, host, "port_state", &state) and
\* if (STRNEQ(state, PORT_STATE_ONLINE)) continue;
FC_PortState ==
    /\ fc.pc = "state"
    /\ \E content \in StateFiles \cup {NoFile} :
         LET r == ReadFCHost(content) IN
         fc' = IF r.ret < 0 \/ r.result # Online
               THEN NextEntry(fc)
               ELSE [fc EXCEPT !.pc = "max"]
    /\ UNCHANGED <<me, cred, sug, acc, p, c, fs, io, dc, wc, cmp, mv>>

\* virReadFCHost(NULL, host, "max_npiv_vports", &max_vports)
FC_MaxVports ==
    /\ fc.pc = "max"
    /\ \E content \in CountFiles \cup {NoFile} :
         LET r == ReadFCHost(content) IN
         fc' = IF r.ret < 0
               THEN NextEntry(fc)
               ELSE [fc EXCEPT !.pc = "inuse", !.max_vports = r.result]
    /\ UNCHANGED <<me, cred, sug, acc, p, c, fs, io, dc, wc, cmp, mv>>

\* (strlen(max_vports) >= strlen(vports)) ||
\* ((strlen(max_vports) == strlen(vports)) && strcmp(max_vports, vports) > 0)
HasCapacity(max_vports, vports) ==
    \/ Len(max_vports) >= Len(vports)
    \/ Len(max_vports) = Len(vports) /\ StrCmp(max_vports, vports) > 0

\* virReadFCHost(NULL, host, "npiv_vports_inuse", &vports), the comparison,
\* and ret = strdup(entry->d_name); goto cleanup;  or the next entry
FC_VportsInUse ==
    /\ fc.pc = "inuse"
    /\ \E content \in CountFiles \cup {NoFile} :
         LET r == ReadFCHost(content)
             pick == HasCapacity(fc.max_vports, r.result)
             rec == [name |-> fc.dir[fc.idx], max |-> fc.max_vports,
                     inuse |-> r.result, picked |-> pick]
         IN  fc' = IF r.ret < 0
                   THEN NextEntry([fc EXCEPT !.max_vports = NULL])
                   ELSE IF pick
                   THEN [fc EXCEPT !.pc = "done", !.ret = fc.dir[fc.idx],
                                   !.max_vports = NULL, !.vports = NULL,
                                   !.seen = Append(@, rec)]
                   ELSE NextEntry([fc EXCEPT !.max_vports = NULL,
                                             !.seen = Append(@, rec)])
    /\ UNCHANGED <<me, cred, sug, acc, p, c, fs, io, dc, wc, cmp, mv>>

NextFC ==
    \/ FC_Opendir
    \/ FC_Readdir
    \/ FC_End
    \/ FC_PortState
    \/ FC_MaxVports
    \/ FC_VportsInUse

\* a call of virFindFCHostCapableVport(sysfs_prefix)
InitFC ==
    /\ me = [uid |-> 0, gid |-> 0]
    /\ cred = CredOf(me)
    /\ \E d \in Dirs, odd \in OddFiles : fc = FC_Call(d, odd)
    /\ sug = Idle /\ acc = Idle /\ p = Idle /\ c = Idle /\ fs = Idle /\ io = Idle /\ dc = Idle /\ wc = Idle /\ cmp = Idle /\ mv = Idle

SpecFC == InitFC /\ [][NextFC]_vars

----------------------------------------------------------------------------
(* saferead and safewrite on the two ends of one stream *)

\* the longest buffer written
MaxLen == 3
Bytes == {"a", "b"}
Buffers == UNION { [1..n -> Bytes] : n \in 0..MaxLen }
\* the errno of a transfer that fails for good (EIO)
IoErrno == {5}

\* safewrite(fd, buf, count) and saferead(fd, buf, count) at their first
\* statement; buf is an offset into the caller's buffer
IO_Call(data) ==
    [pc |-> "run", data |-> data, chan |-> <<>>,
     w |-> [pc |-> "loop", buf |-> 0, count |-> Len(data), nwritten |-> 0,
            ret |-> 0, errno |-> 0, eintr |-> 0, cause |-> ""],
     r |-> [pc |-> "loop", buf |-> 0, count |-> Len(data), nread |-> 0,
            ret |-> 0, errno |-> 0, eintr |-> 0, cause |-> "",
            mem |-> [i \in 1..Len(data) |-> "?"]],
     hard |-> FALSE]

\* the call handing EINTR on to its caller
Interrupted_Returns(f) ==
    [f EXCEPT !.pc = "done", !.ret = -1, !.errno = EINTR, !.eintr = @ + 1]
\* if (r < 0 && errno == EINTR) continue;
Interrupted(f) == [f EXCEPT !.eintr = @ + 1, !.errno = EINTR]

\* if (r < 0) return r;
Failed(f, e) == [f EXCEPT !.pc = "done", !.ret = -1, !.errno = e, !.cause = "error"]

\* if (r == 0) return nread;  (nwritten in safewrite)
Ended(f, n) == [f EXCEPT !.pc = "done", !.ret = n, !.cause = "zero"]

\* saferead after read() stored bytes at buf, forgetting to advance buf
Received_NoAdvance(f, bytes) ==
    [f EXCEPT !.mem = [i \in DOMAIN f.mem |->
                          IF i \in (f.buf + 1)..(f.buf + Len(bytes))
                          THEN bytes[i - f.buf] ELSE f.mem[i]],
              !.count = @ - Len(bytes),
              !.nread = @ + Len(bytes)]
\* read() stored bytes at buf;  buf = (char *)buf + r; count -= r; nread += r;
Received(f, bytes) ==
    [f EXCEPT !.mem = [i \in DOMAIN f.mem |->
                          IF i \in (f.buf + 1)..(f.buf + Len(bytes))
                          THEN bytes[i - f.buf] ELSE f.mem[i]],
              !.buf = @ + Len(bytes),
              !.count = @ - Len(bytes),
              !.nread = @ + Len(bytes)]

\* buf = (const char *)buf + r; count -= r; nwritten += r;
Sent(f, r) ==
    [f EXCEPT !.buf = @ + r, !.count = @ - r, !.nwritten = @ + r]

\* while (count > 0) fails: return nwritten
IO_WriteReturn ==
    /\ io.w.pc = "loop" /\ io.w.count = 0
    /\ io' = [io EXCEPT !.w.pc = "done", !.w.ret = io.w.nwritten]
    /\ UNCHANGED <<me, cred, sug, acc, p, c, fs, fc, dc, wc, cmp, mv>>

\* r = write(fd, buf, count): interrupted, failed, nothing taken, or the
\* first r of the count bytes at buf taken
IO_Write ==
    /\ io.w.pc = "loop" /\ io.w.count > 0
    /\ \/ /\ io.w.eintr < MaxRetry
          /\ io' = [io EXCEPT !.w = Interrupted(io.w)]
       \/ \E e \in IoErrno :
            io' = [io EXCEPT !.w = Failed(io.w, e), !.hard = TRUE]
       \/ io' = [io EXCEPT !.w = Ended(io.w, io.w.nwritten), !.hard = TRUE]
       \/ \E r \in 1..io.w.count :
            io' = [io EXCEPT !.w = Sent(io.w, r),
                             !.chan = @ \o SubSeq(io.data, io.w.buf + 1,
                                                  io.w.buf + r)]
    /\ UNCHANGED <<me, cred, sug, acc, p, c, fs, fc, dc, wc, cmp, mv>>

\* while (count > 0) fails: return nread
IO_ReadReturn ==
    /\ io.r.pc = "loop" /\ io.r.count = 0
    /\ io' = [io EXCEPT !.r.pc = "done", !.r.ret = io.r.nread]
    /\ UNCHANGED <<me, cred, sug, acc, p, c, fs, fc, dc, wc, cmp, mv>>

\* r = read(fd, buf, count): interrupted, failed, at the end of the data
\* (nothing buffered and the writer has left), or the first r buffered bytes
\* delivered; with nothing buffered and the writer at work the call blocks
IO_Read ==
    /\ io.r.pc = "loop" /\ io.r.count > 0
    /\ \/ /\ io.r.eintr < MaxRetry
          /\ io' = [io EXCEPT !.r = Interrupted(io.r)]
       \/ \E e \in IoErrno :
            io' = [io EXCEPT !.r = Failed(io.r, e), !.hard = TRUE]
       \/ /\ io.chan = <<>> /\ io.w.pc = "done"
          /\ io' = [io EXCEPT !.r = Ended(io.r, io.r.nread)]
       \/ \E r \in 1..io.r.count :
            /\ r <= Len(io.chan)
            /\ io' = [io EXCEPT !.r = Received(io.r, Take(io.chan, r)),
                                !.chan = From(@, r + 1)]
    /\ UNCHANGED <<me, cred, sug, acc, p, c, fs, fc, dc, wc, cmp, mv>>

NextIO ==
    \/ IO_WriteReturn
    \/ IO_Write
    \/ IO_ReadReturn
    \/ IO_Read

\* one process writes a buffer with safewrite, another reads as many bytes
\* with saferead from the other end
InitIO ==
    /\ me = [uid |-> 0, gid |-> 0]
    /\ cred = CredOf(me)
    /\ \E data \in Buffers : io = IO_Call(data)
    /\ sug = Idle /\ acc = Idle /\ p = Idle /\ c = Idle /\ fs = Idle /\ fc = Idle /\ dc = Idle /\ wc = Idle /\ cmp = Idle /\ mv = Idle

SpecIO == InitIO /\ [][NextIO]_vars

----------------------------------------------------------------------------
(* safezero, in its three build variants *)

\* the longest file found, the largest offset and the largest length asked
MaxFile == 2
MaxOffset == 2
MaxZero == 3
\* stands for the 1024 * 1024 bytes of one chunk
ChunkBytes == 2
\* stands for the page size mmap wants offset to be a multiple of
PageSize == 2

\* a byte is zero or not
ByteValues == {0, 1}
FileContents == UNION { [1..n -> ByteValues] : n \in 0..MaxFile }
Variants == {"posix_fallocate", "mmap", "write"}
\* ENOSPC, EIO
ZeroErrno == {28, 5}

\* the file with its size set to n: cut, or extended with zeros
Resized(file, n) ==
    [i \in 1..n |-> IF i <= Len(file) THEN file[i] ELSE 0]

\* the file after n zero bytes were stored at position pos (0-based); a gap
\* between the old end and pos reads as zeros
Zeroed(file, pos, n) ==
    LET size == IF pos + n > Len(file) THEN pos + n ELSE Len(file)
    IN  [i \in 1..size |-> IF i > pos /\ i <= pos + n THEN 0
                           ELSE IF i <= Len(file) THEN file[i] ELSE 0]

\* posix_fallocate(fd, offset, len) succeeding: the range is backed by
\* storage, the file grows to offset + len if it was shorter, and the data
\* already there stays
Fallocated(file, offset, len) ==
    IF offset + len > Len(file) THEN Resized(file, offset + len) ELSE file

SZ_Call(variant, file, offset, len) ==
    [pc |-> "start", variant |-> variant, file |-> file, offset |-> offset,
     len |-> len, pos |-> 0, remain |-> 0, bytes |-> 0, ret |-> 0, errno |-> 0,
     short |-> FALSE]

\* int ret = posix_fallocate(fd, offset, len);
\* if (ret == 0) return 0;  errno = ret; return -1;
SZ_Fallocate ==
    /\ io.pc = "start" /\ io.variant = "posix_fallocate"
    /\ \/ io' = [io EXCEPT !.pc = "done", !.ret = 0,
                           !.file = Fallocated(io.file, io.offset, io.len)]
       \/ \E e \in ZeroErrno :
            io' = [io EXCEPT !.pc = "done", !.ret = -1, !.errno = e]
    /\ UNCHANGED <<me, cred, sug, acc, p, c, fs, fc, dc, wc, cmp, mv>>

\* r = ftruncate(fd, offset + len); if (r < 0) return -1;
SZ_Ftruncate ==
    /\ io.pc = "start" /\ io.variant = "mmap"
    /\ \/ io' = [io EXCEPT !.pc = "mmap",
                           !.file = Resized(io.file, io.offset + io.len)]
       \/ \E e \in ZeroErrno :
            io' = [io EXCEPT !.pc = "done", !.ret = -1, !.errno = e]
    /\ UNCHANGED <<me, cred, sug, acc, p, c, fs, fc, dc, wc, cmp, mv>>

\* buf = mmap(NULL, len, ..., MAP_SHARED, fd, offset);
\* if (buf == MAP_FAILED) return -1;  memset(buf, 0, len); munmap; return 0
\* mmap refuses an offset that is no multiple of the page size (EINVAL)
SZ_Mmap ==
    /\ io.pc = "mmap"
    /\ \/ /\ io.offset % PageSize = 0
          /\ io' = [io EXCEPT !.pc = "done", !.ret = 0,
                              !.file = Zeroed(io.file, io.offset, io.len)]
       \/ \E e \in {EINVAL, ENOMEM} :
            /\ e = EINVAL <=> io.offset % PageSize # 0
            /\ io' = [io EXCEPT !.pc = "done", !.ret = -1, !.errno = e]
    /\ UNCHANGED <<me, cred, sug, acc, p, c, fs, fc, dc, wc, cmp, mv>>

\* if (lseek(fd, offset, SEEK_SET) < 0) return -1;
\* remain = len; bytes = 1024 * 1024;
\* r = VIR_ALLOC_N(buf, bytes); if (r < 0) { errno = ENOMEM; return -1; }
SZ_Lseek ==
    /\ io.pc = "start" /\ io.variant = "write"
    /\ \/ io' = [io EXCEPT !.pc = "loop", !.pos = io.offset,
                           !.remain = io.len, !.bytes = ChunkBytes]
       \/ \E e \in {EINVAL, ENOMEM} :
            io' = [io EXCEPT !.pc = "done", !.ret = -1, !.errno = e]
    /\ UNCHANGED <<me, cred, sug, acc, p, c, fs, fc, dc, wc, cmp, mv>>

\* if (bytes > remain) bytes = remain;
ChunkSize(f) == IF f.bytes > f.remain THEN f.remain ELSE f.bytes

\* r = safewrite(fd, buf, bytes); if (r < 0) return -1;  remain -= bytes;
\* safewrite stored n of the bytes: all of them, fewer when a write() took
\* nothing, and any number of them before a write() failed
SZ_Chunk ==
    /\ io.pc = "loop" /\ io.remain > 0
    /\ LET bytes == ChunkSize(io) IN
       \E n \in 0..bytes :
         LET stored == [io EXCEPT !.file = Zeroed(io.file, io.pos, n),
                                  !.pos = @ + n, !.bytes = bytes]
         IN  \/ io' = [stored EXCEPT !.remain = @ - bytes,
                                     !.short = @ \/ n < bytes]
             \/ /\ n < bytes
                /\ \E e \in ZeroErrno :
                     io' = [stored EXCEPT !.pc = "done", !.ret = -1, !.errno = e]
    /\ UNCHANGED <<me, cred, sug, acc, p, c, fs, fc, dc, wc, cmp, mv>>

\* while (remain) is over: VIR_FREE(buf); return 0;
SZ_Return ==
    /\ io.pc = "loop" /\ io.remain = 0
    /\ io' = [io EXCEPT !.pc = "done", !.ret = 0]
    /\ UNCHANGED <<me, cred, sug, acc, p, c, fs, fc, dc, wc, cmp, mv>>

NextZero ==
    \/ SZ_Fallocate
    \/ SZ_Ftruncate
    \/ SZ_Mmap
    \/ SZ_Lseek
    \/ SZ_Chunk
    \/ SZ_Return

\* safezero(fd, offset, len) on a file of any content, in any of the builds
InitZero ==
    /\ me = [uid |-> 0, gid |-> 0]
    /\ cred = CredOf(me)
    /\ \E v \in Variants, file \in FileContents,
          offset \in 0..MaxOffset, len \in 1..MaxZero :
         io = SZ_Call(v, file, offset, len)
    /\ sug = Idle /\ acc = Idle /\ p = Idle /\ c = Idle /\ fs = Idle /\ fc = Idle /\ dc = Idle /\ wc = Idle /\ cmp = Idle /\ mv = Idle

SpecZero == InitZero /\ [][NextZero]_vars

----------------------------------------------------------------------------
(* virDirCreate and virDirCreateNoFork *)

EEXIST == 17

DirFlags == {"AS_UID", "FORCE_PERMS", "ALLOW_EXIST"}
MkdirErrno == {EACCES}
\* what the system calls of one attempt answer: 0, or the errno they fail
\* with; mkdir answering 0 still fails with EEXIST on a directory that exists
DirOutcomes ==
    [mkdir : {0} \cup MkdirErrno, stat : {0} \cup StatErrno,
     chown : {0, EPERM}, chmod : {0, EPERM}]

\* the result of mkdir(path, mode) by a process with credentials cr
Mkdir(dir, mode, cr, o) ==
    IF o.mkdir # 0 THEN [errno |-> o.mkdir, fs |-> dir]
    ELSE IF dir # Idle THEN [errno |-> EEXIST, fs |-> dir]
    ELSE [errno |-> 0,
          fs |-> [uid |-> cr.euid, gid |-> cr.egid, mode |-> mode % (ModeMask + 1)]]

\* virDirCreateNoFork(path, mode, uid, gid, flags) run by a process with
\* credentials cr: the value returned, the directory afterwards, and the
\* step that failed
DirCreateNoFork(dir, mode, uid, gid, flags, cr, o) ==
    LET mk == Mkdir(dir, mode, cr, o)
        d1 == mk.fs
    IN  IF mk.errno # 0 /\ ~ (mk.errno = EEXIST /\ "ALLOW_EXIST" \in flags)
        THEN [ret |-> - mk.errno, fs |-> d1, failed |-> "mkdir"]
        ELSE IF o.stat # 0
        THEN [ret |-> - o.stat, fs |-> d1, failed |-> "stat"]
        ELSE IF (d1.uid # uid \/ d1.gid # gid) /\ o.chown # 0
        THEN [ret |-> - o.chown, fs |-> d1, failed |-> "chown"]
        ELSE LET d2 == [d1 EXCEPT !.uid = uid, !.gid = gid] IN
             IF "FORCE_PERMS" \in flags /\ o.chmod # 0
             THEN [ret |-> - o.chmod, fs |-> d2, failed |-> "chmod"]
             ELSE [ret |-> 0, failed |-> "",
                   fs |-> IF "FORCE_PERMS" \in flags
                          THEN [d2 EXCEPT !.mode = mode % (ModeMask + 1)]
                          ELSE d2]

\* the child of virDirCreate after the identity switch: mkdir, stat, chown
\* of the group, chmod; the value of ret it ends with
DirCreateChild(dir, mode, gid, flags, cr, o) ==
    LET mk == Mkdir(dir, mode, cr, o)
        d1 == mk.fs
    IN  IF mk.errno # 0
        THEN [ret |-> - mk.errno, fs |-> d1, failed |-> "mkdir", errno |-> mk.errno]
        ELSE IF o.stat # 0
        THEN [ret |-> - o.stat, fs |-> d1, failed |-> "stat", errno |-> o.stat]
        ELSE IF d1.gid # gid /\ o.chown # 0
        THEN [ret |-> - o.chown, fs |-> d1, failed |-> "chown", errno |-> o.chown]
        ELSE LET d2 == [d1 EXCEPT !.gid = gid] IN
             IF "FORCE_PERMS" \in flags /\ o.chmod # 0
             THEN [ret |-> 0, fs |-> d2, failed |-> "chmod", errno |-> o.chmod]
             ELSE [ret |-> 0, failed |-> "", errno |-> 0,
                   fs |-> IF "FORCE_PERMS" \in flags
                          THEN [d2 EXCEPT !.mode = mode % (ModeMask + 1)]
                          ELSE d2]

DC_Call(uid, gid, flags, mode) ==
    [pc |-> "start", uid |-> uid, gid |-> gid, flags |-> flags, mode |-> mode,
     ret |-> 0, pid |-> 0, waitret |-> 0, status |-> 0, errno |-> 0,
     eintr |-> 0, retval |-> 0,
     \* history of the call
     forkCalled |-> FALSE, waited |-> FALSE, nofork |-> FALSE, failed |-> "",
     absent |-> FALSE]

\* !(flags & AS_UID) || getuid() != 0 || (uid == 0 && gid == 0) ||
\* ((flags & ALLOW_EXIST) && stat(path, &st) >= 0)
DirDirect(f, statOk) ==
    \/ "AS_UID" \notin f.flags
    \/ me.uid # 0
    \/ (f.uid = 0 /\ f.gid = 0)
    \/ ("ALLOW_EXIST" \in f.flags /\ statOk)

\* the preamble: -1 means the current id; then the choice of the path;
\* stat() may fail on a directory that exists, never succeed on one that
\* does not
DC_Start ==
    /\ dc.pc = "start"
    /\ \E statOk \in BOOLEAN :
         /\ statOk => fs # Idle
         /\ LET f == [dc EXCEPT !.uid = Resolve(dc.uid, me.uid),
                                !.gid = Resolve(dc.gid, me.gid),
                                !.absent = (fs = Idle)]
            IN  dc' = [f EXCEPT !.pc = IF DirDirect(f, statOk)
                                       THEN "nofork" ELSE "fork"]
    /\ UNCHANGED <<me, cred, sug, acc, p, c, fs, fc, io, wc, cmp, mv>>

\* return virDirCreateNoFork(path, mode, uid, gid, flags);
DC_NoFork ==
    /\ dc.pc = "nofork"
    /\ \E o \in DirOutcomes :
         LET r == DirCreateNoFork(fs, dc.mode, dc.uid, dc.gid, dc.flags,
                                  CredOf(me), o)
         IN  /\ fs' = r.fs
             /\ dc' = [dc EXCEPT !.pc = "done", !.retval = r.ret,
                                 !.nofork = TRUE, !.failed = r.failed,
                                 !.errno = IF r.ret < 0 THEN - r.ret ELSE @]
    /\ UNCHANGED <<me, cred, sug, acc, p, c, fc, io, wc, cmp, mv>>

\* int forkRet = virFork(&pid); if (pid < 0) { ret = -errno; return ret; }
DC_Fork ==
    /\ dc.pc = "fork"
    /\ \E o \in ForkOutcomes, e \in ForkErrno :
         CASE o = "nofork" ->
                /\ dc' = [dc EXCEPT !.pc = "done", !.pid = -1, !.ret = - e,
                                    !.retval = - e, !.errno = e]
                /\ UNCHANGED c
           [] o = "child" ->
                /\ dc' = [dc EXCEPT !.pc = "wait", !.pid = 1, !.forkCalled = TRUE]
                /\ c' = NewChild("dir", 0, 0)
           [] o = "childsetup" ->
                /\ dc' = [dc EXCEPT !.pc = "wait", !.pid = 1, !.forkCalled = TRUE]
                /\ c' = NewChild("dir", -1, e)
    /\ UNCHANGED <<me, cred, sug, acc, p, fs, fc, io, wc, cmp, mv>>

\* while ((waitret = waitpid(pid, &status, 0) == -1) && (errno == EINTR));
\* when waitpid fails, status is left as it was: not initialised
DC_Wait ==
    /\ dc.pc = "wait"
    /\ \/ /\ dc.eintr < MaxRetry
          /\ dc' = WaitInterrupted(dc)
          /\ UNCHANGED <<c, cred>>
       \/ /\ ChildDead
          /\ \/ dc' = [dc EXCEPT !.pc = "waited", !.status = c.status,
                                 !.waitret = WaitRet(dc.pid), !.eintr = 0,
                                 !.waited = TRUE]
             \/ \E e \in WaitErrno, st \in StatusValues :
                  dc' = [dc EXCEPT !.pc = "waited", !.status = st, !.errno = e,
                                   !.waitret = WaitRet(-1), !.eintr = 0]
          /\ c' = Reaped(c)
          /\ cred' = CredOf(me)
    /\ UNCHANGED <<me, sug, acc, p, fs, fc, io, wc, cmp, mv>>

\* if (waitret == -1) { ret = -errno; goto parenterror; }
\* if (!WIFEXITED(status) || (ret = -WEXITSTATUS(status)) == -EACCES)
\*     return virDirCreateNoFork(...);
\* parenterror: return ret;
DC_Decide ==
    /\ dc.pc = "waited"
    /\ dc' = IF dc.waitret = -1
             THEN [dc EXCEPT !.pc = "done", !.ret = - dc.errno,
                             !.retval = - dc.errno]
             ELSE IF ~ WIFEXITED(dc.status)
             THEN [dc EXCEPT !.pc = "nofork"]
             ELSE IF - WEXITSTATUS(dc.status) = - EACCES
             THEN [dc EXCEPT !.pc = "nofork", !.ret = - EACCES]
             ELSE [dc EXCEPT !.pc = "done", !.ret = - WEXITSTATUS(dc.status),
                             !.retval = - WEXITSTATUS(dc.status)]
    /\ UNCHANGED <<me, cred, sug, acc, p, c, fs, fc, io, wc, cmp, mv>>

\* child: if (forkRet < 0) goto childerror;  else it enters
\* virSetUIDGID(uid, gid)
DCC_Start ==
    /\ c.pc = "c_start" /\ c.kind = "dir"
    /\ IF c.forkRet < 0
       THEN /\ c' = [c EXCEPT !.pc = "c_exit", !.cause = c.errno]
            /\ UNCHANGED sug
       ELSE /\ c' = [c EXCEPT !.pc = "c_setuid"]
            /\ sug' = SUG_Call(dc.uid, dc.gid, "dir")
    /\ UNCHANGED <<me, cred, acc, p, fs, fc, io, dc, wc, cmp, mv>>

\* child: if (virSetUIDGID(uid, gid) < 0) { ret = -errno; goto childerror; }
DCC_Switched ==
    /\ c.pc = "c_setuid" /\ c.kind = "dir"
    /\ sug.pc = "done" /\ sug.caller = "dir"
    /\ c' = IF sug.ret < 0
            THEN [c EXCEPT !.pc = "c_exit", !.ret = - sug.errno,
                           !.errno = sug.errno, !.cause = sug.errno,
                           !.switchFailed = TRUE]
            ELSE [c EXCEPT !.pc = "c_mkdir", !.switched = TRUE]
    /\ sug' = Idle
    /\ UNCHANGED <<me, cred, acc, p, fs, fc, io, dc, wc, cmp, mv>>

\* child: mkdir, stat, chown of the group, chmod
DCC_Create ==
    /\ c.pc = "c_mkdir" /\ c.kind = "dir"
    /\ \E o \in DirOutcomes :
         LET r == DirCreateChild(fs, dc.mode, dc.gid, dc.flags, cred, o) IN
         /\ fs' = r.fs
         /\ c' = [c EXCEPT !.pc = "c_exit", !.ret = r.ret, !.cause = r.errno,
                           !.errno = IF r.errno # 0 THEN r.errno ELSE @,
                           !.ops = Append(@, "mkdir")]
    /\ UNCHANGED <<me, cred, sug, acc, p, fc, io, dc, wc, cmp, mv>>

\* childerror: _exit(ret);
DCC_Exit ==
    /\ c.pc = "c_exit" /\ c.kind = "dir"
    /\ c' = [c EXCEPT !.pc = "c_dead", !.status = StatusExited(c.ret),
                      !.open = {}]
    /\ UNCHANGED <<me, cred, sug, acc, p, fs, fc, io, dc, wc, cmp, mv>>

\* another process creates the directory after the parent has looked for
\* it and before the child runs mkdir
DC_OtherCreates ==
    /\ dc.pc \in {"fork", "wait"}
    /\ c.pc \in {"c_start", "c_setuid", "c_mkdir"}
    /\ fs = Idle
    /\ fs' \in Files
    /\ UNCHANGED <<me, cred, sug, acc, p, c, fc, io, dc, wc, cmp, mv>>

NextDir ==
    \/ DC_Start
    \/ DC_OtherCreates
    \/ DC_NoFork
    \/ DC_Fork
    \/ DC_Wait
    \/ DC_Decide
    \/ DCC_Start
    \/ DCC_Switched
    \/ DCC_Create
    \/ DCC_Exit
    \/ CH_Killed
    \/ NextSUG

\* a process with identity me calls virDirCreate(path, mode, uid, gid, flags)
\* where the directory exists or not
InitDir ==
    /\ me \in Callers
    /\ cred = CredOf(me)
    /\ \E u \in IdArgs, g \in IdArgs, f \in SUBSET DirFlags, m \in ReqModes :
         dc = DC_Call(u, g, f, m)
    /\ fs \in {Idle} \cup Files
    /\ sug = Idle /\ acc = Idle /\ p = Idle /\ c = Idle /\ fc = Idle /\ io = Idle
    /\ wc = Idle /\ cmp = Idle /\ mv = Idle

SpecDir == InitDir /\ [][NextDir]_vars

----------------------------------------------------------------------------
(* virSetUIDGIDWithCaps (WITH_CAPNG) *)

\* the capabilities told apart: the three the function adds for itself and
\* one a caller asks for in capBits
Caps == {"CAP_SETGID", "CAP_SETUID", "CAP_SETPCAP", "CAP_OTHER"}
CapBits == SUBSET Caps
\* the effective capabilities of the calling process: all for root, none
\* for anybody else
ProcessCaps == IF me.uid = 0 THEN Caps ELSE {}
\* what capng_apply answers when it fails
CapngErrors == {-5}
PrctlErrno == {EINVAL}

WC_Call(uid, gid, capBits, clearExistingCaps) ==
    [pc |-> "prepare", uid |-> uid, gid |-> gid, capBits |-> capBits,
     clearExistingCaps |-> clearExistingCaps,
     need_setgid |-> FALSE, need_setuid |-> FALSE, need_setpcap |-> FALSE,
     \* the effective and the permitted set libcap-ng holds, and the sets of
     \* the process, which an apply that succeeds makes equal to them
     eff |-> {}, perm |-> {}, proc |-> [eff |-> ProcessCaps, perm |-> ProcessCaps],
     \* the keep-capabilities flag of the process
     keepcaps |-> FALSE,
     capng_ret |-> 0, ret |-> -1, errno |-> 0, retval |-> 0,
     \* history of the call: the operations that failed and the steps made,
     \* in order
     failed |-> <<>>, seq |-> <<>>]

\* capng_clear, the capng_update of capBits, and the three need_* decisions
WC_Prepare ==
    /\ wc.pc = "prepare"
    /\ LET e0 == IF wc.clearExistingCaps \/ (wc.uid # NoId /\ wc.uid # 0)
                 THEN {} ELSE ProcessCaps
           e1 == e0 \cup wc.capBits
           ng == wc.gid # NoId /\ "CAP_SETGID" \notin e1
           e2 == IF ng THEN e1 \cup {"CAP_SETGID"} ELSE e1
           nu == wc.uid # NoId /\ "CAP_SETUID" \notin e2
           e3 == IF nu THEN e2 \cup {"CAP_SETUID"} ELSE e2
           np == (wc.capBits # {} \/ ng \/ nu) /\ "CAP_SETPCAP" \notin e3
           e4 == IF np THEN e3 \cup {"CAP_SETPCAP"} ELSE e3
       IN  wc' = [wc EXCEPT !.pc = "keepcaps", !.eff = e4, !.perm = e4,
                            !.need_setgid = ng, !.need_setuid = nu,
                            !.need_setpcap = np]
    /\ UNCHANGED <<me, cred, sug, acc, p, c, fs, fc, io, dc, cmp, mv>>

\* the frame after a step failed for good: goto cleanup with ret as it is
WC_Cleanup(f, step) ==
    [f EXCEPT !.pc = "done", !.retval = f.ret, !.failed = Append(@, step)]

\* if (prctl(PR_SET_KEEPCAPS, 1, 0, 0, 0)) goto cleanup;
WC_SetKeepcaps ==
    /\ wc.pc = "keepcaps"
    /\ \/ wc' = [wc EXCEPT !.pc = "applytemp", !.keepcaps = TRUE,
                            !.seq = Append(@, "keep on")]
       \/ \E e \in PrctlErrno :
            wc' = WC_Cleanup([wc EXCEPT !.errno = e], "set KEEPCAPS")
    /\ UNCHANGED <<me, cred, sug, acc, p, c, fs, fc, io, dc, cmp, mv>>

\* the failure of capng_apply(CAPNG_SELECT_CAPS) always fatal
ApplyTempFailed_Fatal(f, r) ==
    WC_Cleanup([f EXCEPT !.capng_ret = r, !.seq = Append(@, "apply temporary")],
               "apply temporary")
\* capng_apply(CAPNG_SELECT_CAPS) failed with r:
\* if (getuid() > 0 && clearExistingCaps && !need_setuid && !need_setgid)
\*     capng_clear(CAPNG_SELECT_CAPS);  else goto cleanup;
ApplyTempFailed(f, r) ==
    IF me.uid > 0 /\ f.clearExistingCaps /\ ~ f.need_setuid /\ ~ f.need_setgid
    THEN [f EXCEPT !.pc = "switch", !.capng_ret = r, !.eff = {}, !.perm = {},
                   !.failed = Append(@, "apply temporary"),
                   !.seq = Append(@, "apply temporary")]
    ELSE WC_Cleanup([f EXCEPT !.capng_ret = r,
                              !.seq = Append(@, "apply temporary")],
                    "apply temporary")

\* if ((capng_ret = capng_apply(CAPNG_SELECT_CAPS)) < 0) ...
WC_ApplyTemp ==
    /\ wc.pc = "applytemp"
    /\ \/ wc' = [wc EXCEPT !.pc = "switch",
                            !.proc = [eff |-> wc.eff, perm |-> wc.perm],
                            !.seq = Append(@, "apply temporary")]
       \/ \E r \in CapngErrors : wc' = ApplyTempFailed(wc, r)
    /\ UNCHANGED <<me, cred, sug, acc, p, c, fs, fc, io, dc, cmp, mv>>

\* the call of virSetUIDGID(uid, gid)
WC_Switch ==
    /\ wc.pc = "switch"
    /\ wc' = [wc EXCEPT !.pc = "switching"]
    /\ sug' = SUG_Call(wc.uid, wc.gid, "caps")
    /\ UNCHANGED <<me, cred, acc, p, c, fs, fc, io, dc, cmp, mv>>

\* if (virSetUIDGID(uid, gid) < 0) goto cleanup;
WC_Switched ==
    /\ wc.pc = "switching"
    /\ sug.pc = "done" /\ sug.caller = "caps"
    /\ wc' = IF sug.ret < 0
             THEN WC_Cleanup([wc EXCEPT !.errno = sug.errno,
                                        !.seq = Append(@, "identity switch")],
                             "identity switch")
             ELSE [wc EXCEPT !.pc = "resetkeep",
                             !.seq = Append(@, "identity switch")]
    /\ sug' = Idle
    /\ UNCHANGED <<me, cred, acc, p, c, fs, fc, io, dc, cmp, mv>>

\* the call going on with KEEPCAPS left as it is
KeepcapsReset_Skipped(f) == [f EXCEPT !.pc = "bounds"]
\* prctl(PR_SET_KEEPCAPS, 0, 0, 0, 0) returned 0
KeepcapsReset(f) ==
    [f EXCEPT !.pc = "bounds", !.keepcaps = FALSE, !.seq = Append(@, "keep off")]

\* if (prctl(PR_SET_KEEPCAPS, 0, 0, 0, 0)) goto cleanup;
WC_ResetKeepcaps ==
    /\ wc.pc = "resetkeep"
    /\ \/ wc' = KeepcapsReset(wc)
       \/ \E e \in PrctlErrno :
            wc' = WC_Cleanup([wc EXCEPT !.errno = e], "reset KEEPCAPS")
    /\ UNCHANGED <<me, cred, sug, acc, p, c, fs, fc, io, dc, cmp, mv>>

\* the capabilities added for the call's own use kept to the end
Transient_Kept(f) == {}
\* the capabilities added for the call's own use: need_setgid, need_setuid,
\* need_setpcap
Transient(f) ==
    {cp \in {"CAP_SETGID", "CAP_SETUID", "CAP_SETPCAP"} :
        \/ cp = "CAP_SETGID" /\ f.need_setgid
        \/ cp = "CAP_SETUID" /\ f.need_setuid
        \/ cp = "CAP_SETPCAP" /\ f.need_setpcap}

\* capng_apply(CAPNG_SELECT_BOUNDS), its value ignored; then the three
\* capng_update(CAPNG_DROP, ...) of what was added
WC_Bounds ==
    /\ wc.pc = "bounds"
    /\ LET f == [wc EXCEPT !.pc = "applyfinal",
                           !.eff = @ \ Transient(wc),
                           !.perm = @ \ Transient(wc),
                           !.seq = @ \o <<"apply bounding", "drop">>]
       IN  \/ wc' = f
           \/ wc' = [f EXCEPT !.failed = Append(@, "apply bounding")]
    /\ UNCHANGED <<me, cred, sug, acc, p, c, fs, fc, io, dc, cmp, mv>>

\* if ((capng_ret = capng_apply(CAPNG_SELECT_CAPS)) < 0) { ret = -1;
\* goto cleanup; }  ret = 0;  cleanup: return ret;
WC_ApplyFinal ==
    /\ wc.pc = "applyfinal"
    /\ \/ wc' = [wc EXCEPT !.pc = "done", !.ret = 0, !.retval = 0,
                            !.proc = [eff |-> wc.eff, perm |-> wc.perm],
                            !.seq = Append(@, "apply final")]
       \/ \E r \in CapngErrors :
            wc' = WC_Cleanup([wc EXCEPT !.capng_ret = r, !.ret = -1,
                                       !.seq = Append(@, "apply final")],
                             "apply final")
    /\ UNCHANGED <<me, cred, sug, acc, p, c, fs, fc, io, dc, cmp, mv>>

NextWC ==
    \/ WC_Prepare
    \/ WC_SetKeepcaps
    \/ WC_ApplyTemp
    \/ WC_Switch
    \/ WC_Switched
    \/ WC_ResetKeepcaps
    \/ WC_Bounds
    \/ WC_ApplyFinal
    \/ NextSUG

\* a process calls virSetUIDGIDWithCaps(uid, gid, capBits, clearExistingCaps)
InitWC ==
    /\ me \in Callers
    /\ cred = CredOf(me)
    /\ \E u \in IdArgs, g \in IdArgs, b \in CapBits, cl \in BOOLEAN :
         wc = WC_Call(u, g, b, cl)
    /\ sug = Idle /\ acc = Idle /\ p = Idle /\ c = Idle /\ fs = Idle
    /\ fc = Idle /\ io = Idle /\ dc = Idle /\ cmp = Idle /\ mv = Idle

SpecWC == InitWC /\ [][NextWC]_vars

----------------------------------------------------------------------------
(* virCompareLimitUlong *)

\* largest limit compared
MaxLimit == 9
Limits == 0..MaxLimit

\* if (a == b) return 0;  if (a == 0 || a > b) return 1;  return -1;
CompareLimitUlong(a, b) ==
    IF a = b THEN 0
    ELSE IF a = 0 \/ a > b THEN 1
    ELSE -1

CMP_Call(a, b) == [pc |-> "call", a |-> a, b |-> b, ret |-> 0]

CMP_Return ==
    /\ cmp.pc = "call"
    /\ cmp' = [cmp EXCEPT !.pc = "done", !.ret = CompareLimitUlong(cmp.a, cmp.b)]
    /\ UNCHANGED <<me, cred, sug, acc, p, c, fs, fc, io, dc, wc, mv>>

NextCmp == CMP_Return

\* a caller compares two limits
InitCmp ==
    /\ me \in {[uid |-> 0, gid |-> 0]}
    /\ cred = CredOf(me)
    /\ \E a \in Limits, b \in Limits : cmp = CMP_Call(a, b)
    /\ sug = Idle /\ acc = Idle /\ p = Idle /\ c = Idle /\ fs = Idle
    /\ fc = Idle /\ io = Idle /\ dc = Idle /\ wc = Idle /\ mv = Idle

SpecCmp == InitCmp /\ [][NextCmp]_vars

----------------------------------------------------------------------------
(* virManageVport *)

VPORT_CREATE == 0
VPORT_DELETE == 1
\* the operation codes a caller may pass: the two of the enum and another
Operations == {VPORT_CREATE, VPORT_DELETE, 2}
\* largest host number
MaxHost == 1
Hosts == 0..MaxHost
SYSFS_FC_HOST_PATH == "/sys/class/fc_host/"
SYSFS_SCSI_HOST_PATH == "/sys/class/scsi_host/"
Trees == {SYSFS_FC_HOST_PATH, SYSFS_SCSI_HOST_PATH}
ControlFiles == {"vport_create", "vport_delete"}
WWNs == {<<"1">>, <<"2">>}

\* virAsprintf(&operation_path, "%shost%d/%s", tree, host, file)
OperationPath(tree, host, file) ==
    [tree |-> tree, host |-> host, file |-> file]
\* the control files that may exist
AllPaths ==
    {OperationPath(t, h, f) : t \in Trees, h \in Hosts, f \in ControlFiles}
\* virAsprintf(&vport_name, "%s:%s", wwnn, wwpn)
VportName(wwnn, wwpn) == wwnn \o <<":">> \o wwpn

\* virFileExists(path)
FileExists(sysfs, path) == path \in sysfs

\* what virFileWriteStr(path, str, 0) may meet: nothing, or a failure of
\* open, of safewrite, or of close; a control file takes a string whole or
\* not at all
WriteOutcomes == {"ok", "open", "write", "close"}
\* virFileWriteStr(path, str, 0): the value returned
FileWriteStr(o) == IF o = "ok" THEN 0 ELSE -1

MV_Call(parent_host, wwpn, wwnn, operation, sysfs) ==
    [pc |-> "operation", parent_host |-> parent_host, wwpn |-> wwpn,
     wwnn |-> wwnn, operation |-> operation, sysfs |-> sysfs,
     operation_file |-> "", operation_path |-> NULL, ret |-> -1,
     \* history of the call: the paths probed and the writes made, in order
     probes |-> <<>>, writes |-> <<>>]

\* the control file of an operation code, "" for none
OperationFile_CreateOnly(operation) ==
    IF operation = VPORT_CREATE THEN "vport_create" ELSE ""
\* switch (operation): VPORT_CREATE, VPORT_DELETE, default
OperationFile(operation) ==
    CASE operation = VPORT_CREATE -> "vport_create"
      [] operation = VPORT_DELETE -> "vport_delete"
      [] OTHER -> ""

\* switch (operation) { ... default: report; goto cleanup; }
MV_Operation ==
    /\ mv.pc = "operation"
    /\ LET f == OperationFile(mv.operation) IN
       mv' = IF f = ""
             THEN [mv EXCEPT !.pc = "done"]
             ELSE [mv EXCEPT !.pc = "fc", !.operation_file = f]
    /\ UNCHANGED <<me, cred, sug, acc, p, c, fs, fc, io, dc, wc, cmp>>

\* the path under fc_host is built and probed: if (!virFileExists(...))
MV_ProbeFC ==
    /\ mv.pc = "fc"
    /\ LET path == OperationPath(SYSFS_FC_HOST_PATH, mv.parent_host,
                                 mv.operation_file)
       IN  mv' = [mv EXCEPT !.operation_path = path,
                            !.probes = Append(@, path),
                            !.pc = IF FileExists(mv.sysfs, path)
                                   THEN "write" ELSE "scsi"]
    /\ UNCHANGED <<me, cred, sug, acc, p, c, fs, fc, io, dc, wc, cmp>>

\* the path under scsi_host is built and probed; report and goto cleanup
\* when it does not exist either
MV_ProbeSCSI ==
    /\ mv.pc = "scsi"
    /\ LET path == OperationPath(SYSFS_SCSI_HOST_PATH, mv.parent_host,
                                 mv.operation_file)
       IN  mv' = [mv EXCEPT !.operation_path = path,
                            !.probes = Append(@, path),
                            !.pc = IF FileExists(mv.sysfs, path)
                                   THEN "write" ELSE "done"]
    /\ UNCHANGED <<me, cred, sug, acc, p, c, fs, fc, io, dc, wc, cmp>>

\* if (virFileWriteStr(operation_path, vport_name, 0) == 0) ret = 0;
\* else report;  cleanup: return ret;
MV_Write ==
    /\ mv.pc = "write"
    /\ \E o \in WriteOutcomes :
         LET str == VportName(mv.wwnn, mv.wwpn)
             rc == FileWriteStr(o)
         IN  mv' = [mv EXCEPT !.pc = "done",
                              !.ret = IF rc = 0 THEN 0 ELSE @,
                              !.writes = Append(@, [path |-> mv.operation_path,
                                                    str |-> str, rc |-> rc])]
    /\ UNCHANGED <<me, cred, sug, acc, p, c, fs, fc, io, dc, wc, cmp>>

NextMV ==
    \/ MV_Operation
    \/ MV_ProbeFC
    \/ MV_ProbeSCSI
    \/ MV_Write

\* a caller asks for an operation on a host, with some control files there
InitMV ==
    /\ me \in {[uid |-> 0, gid |-> 0]}
    /\ cred = CredOf(me)
    /\ \E h \in Hosts, wp \in WWNs, wn \in WWNs, op \in Operations,
          sysfs \in SUBSET AllPaths :
         mv = MV_Call(h, wp, wn, op, sysfs)
    /\ sug = Idle /\ acc = Idle /\ p = Idle /\ c = Idle /\ fs = Idle
    /\ fc = Idle /\ io = Idle /\ dc = Idle /\ wc = Idle /\ cmp = Idle

SpecMV == InitMV /\ [][NextMV]_vars

----------------------------------------------------------------------------
(* The child of either function *)

\* a process calls virFileOpenAs or virFileAccessibleAs
InitChild == InitOpen \/ InitACC
NextChild == NextOpen \/ NextACC
SpecChild == InitChild /\ [][NextChild]_vars

(* The three functions that fork *)
InitForked == InitOpen \/ InitACC \/ InitDir
NextForked == NextOpen \/ NextACC \/ NextDir
SpecForked == InitForked /\ [][NextForked]_vars

----------------------------------------------------------------------------
(* Properties *)

Pos(s, x) == IF \E i \in 1..Len(s) : s[i] = x
             THEN CHOOSE i \in 1..Len(s) : s[i] = x
             ELSE 0

OA_Returned == p.pc = "done"

\* C1: a call of virFileOpenAs whose requested identity, -1 resolved, is the
\* caller's own never forks a child, whatever the flags and whatever the
\* direct open and the shared-filesystem check answer.
C1_SameIdentityNeverForks ==
    (p.pc \notin {"idle", "start"} /\ p.uid = me.uid /\ p.gid = me.gid) =>
        ~ p.forkCalled

\* C2: a call with neither NOFORK nor FORK leaves the preamble in the very
\* state the same call with both flags leaves it in, so every later step and
\* the value returned are the same for every answer of the environment; and
\* normalising the flags of a call past its preamble changes nothing.
C2_NeitherIsBoth ==
    /\ [][(p.pc = "start" /\ p.flags \cap ForkFlags = {}) =>
            /\ p' = [AfterStart([p EXCEPT !.flags = @ \cup ForkFlags])
                        EXCEPT !.asked = p.asked]
            /\ UNCHANGED <<me, cred, sug, acc, c, fs, fc, io, dc, wc, cmp, mv>>]_vars
    /\ [](p.pc \notin {"idle", "start"} =>
            /\ p.flags \cap ForkFlags # {}
            /\ NormaliseFlags(p.flags) = p.flags
            /\ p.flags \ ForkFlags = p.asked \ ForkFlags)

\* a call given neither flag went down the direct and the forked path and
\* returned a descriptor
C2_Witness ==
    /\ OA_Returned /\ p.asked \cap ForkFlags = {}
    /\ p.directTried /\ p.forkCalled /\ p.retval >= 0

\* C3: a failed virFileOpenAs returns the negated errno of the operation that
\* failed last; with only NOFORK in effect and the direct open failing with
\* errno e, the error is reported and -e is returned.
C3_FailureReturnsErrno ==
    (OA_Returned /\ p.retval < 0) =>
        /\ p.retval = - p.errno
        /\ (p.flags \cap ForkFlags = {"NOFORK"} /\ p.directErr # 0) =>
              /\ p.retval = - p.directErr
              /\ p.reported = p.directErr

\* C4: when virFileOpenAs returns a negative value the parent holds none of
\* the descriptors it opened during the call (the file, either end of the
\* socket pair); when it returns a descriptor, that one alone is open.
C4_NoDescriptorLeak ==
    OA_Returned =>
        IF p.retval < 0 THEN p.open = {} ELSE p.open = {p.retval}

\* C5: whenever virFileOpenAs returns a descriptor, FORCE_OWNER means the
\* file is owned by the resolved requested uid and gid, and FORCE_MODE means
\* the file's rwx bits are those of the requested mode, whichever of the
\* direct, the forked and the fallback path produced the descriptor.
C5_ForcedOwnerMode ==
    (OA_Returned /\ p.retval >= 0) =>
        /\ "FORCE_OWNER" \in p.flags => fs.uid = p.uid /\ fs.gid = p.gid
        /\ "FORCE_MODE" \in p.flags => RWX(fs.mode) = RWX(p.mode)

\* a descriptor opened by the child, for an identity that is not the
\* caller's, with both force flags set
C5_Witness ==
    /\ OA_Returned /\ p.retval >= 0 /\ ForceFlags \subseteq p.flags
    /\ p.forkCalled /\ p.waited /\ p.opens = 0
    /\ p.uid # me.uid /\ fs.uid = p.uid /\ RWX(fs.mode) = RWX(p.mode)

\* C6: with both ids requested, setregid precedes initgroups, which precedes
\* setreuid; and when setregid fails neither initgroups nor setreuid is ever
\* called, the user id stays what it was, and the call returns -1 with errno
\* the error of setregid.
C6_GroupBeforeUser ==
    (sug.pc # "idle" /\ sug.gid # NoId /\ sug.uid # NoId) =>
        /\ Pos(sug.seq, "initgroups") > 0 =>
              /\ Pos(sug.seq, "setregid") > 0
              /\ Pos(sug.seq, "setregid") < Pos(sug.seq, "initgroups")
        /\ Pos(sug.seq, "setreuid") > 0 =>
              /\ Pos(sug.seq, "initgroups") > 0
              /\ Pos(sug.seq, "initgroups") < Pos(sug.seq, "setreuid")
        /\ sug.failed = "setregid" =>
              /\ Pos(sug.seq, "initgroups") = 0
              /\ Pos(sug.seq, "setreuid") = 0
              /\ sug.pc \in {"error", "done"}
              /\ sug.pc = "done" => sug.ret = -1 /\ sug.errno = sug.err
              /\ cred.ruid = me.uid /\ cred.euid = me.uid

\* a call with both ids requested ran all three switches
C6_Witness ==
    /\ sug.pc = "done" /\ sug.ret = 0
    /\ sug.gid # NoId /\ sug.uid # NoId
    /\ sug.seq = <<"setregid", "getpwuid_r", "initgroups", "setreuid">>
    /\ cred.euid # me.uid

\* C7: a child of virFileAccessibleAs or virFileOpenForked that fails with
\* errno e and reaches _exit has exit status e when e <= 255 and 255 when
\* e > 255; the parent of virFileAccessibleAs that collected that exit fails
\* with errno equal to the exit status (13 for 13, 255 for 300).
C7_ExitStatusClamp ==
    /\ (c.pc \in {"c_dead", "c_reaped"} /\ WIFEXITED(c.status) /\ c.cause > 0) =>
          WEXITSTATUS(c.status) = IF c.cause <= 255 THEN c.cause ELSE 255
    /\ (acc.pc = "done" /\ acc.waited /\ WIFEXITED(acc.status) /\ c.cause > 0) =>
          /\ acc.ret = -1
          /\ acc.errno = WEXITSTATUS(c.status)
          /\ c.cause = EACCES => acc.errno = EACCES
          /\ c.cause = 300 => acc.errno = 255

\* the access() of the child failed with errno 300 and the parent saw 255
C7_Witness ==
    /\ acc.pc = "done" /\ acc.waited /\ WIFEXITED(acc.status)
    /\ c.cause = 300 /\ acc.errno = 255

\* C8: virFileAccessibleAs takes the fork path iff (uid, gid) differs from
\* (getuid(), getgid()); with the same identity it returns what access()
\* returned; the child calls access() only after virSetUIDGID succeeded; the
\* parent returns 0 iff it collected a normal exit with status 0; and after
\* a failed identity switch access() never runs and the parent returns -1.
C8_AccessibleAs ==
    acc.pc \notin {"idle", "start"} =>
        /\ acc.forkCalled <=> ~ (acc.uid = me.uid /\ acc.gid = me.gid)
        /\ ~ acc.forkCalled => acc.pc = "done" /\ acc.ret = acc.direct /\ c = Idle
        /\ (c # Idle /\ Pos(c.ops, "access") > 0) => c.switched
        /\ (c # Idle /\ c.switchFailed) =>
              /\ Pos(c.ops, "access") = 0
              /\ acc.pc = "done" => acc.ret = -1
        /\ (acc.forkCalled /\ acc.pc = "done") =>
              /\ acc.ret \in {0, -1}
              /\ acc.ret = 0 <=>
                    (acc.waited /\ WIFEXITED(acc.status) /\ WEXITSTATUS(acc.status) = 0)
              /\ acc.ret = 0 => c.status = StatusExited(0) /\ c.cause = 0

\* a forked call whose child switched identity, ran access() and was collected
C8_Witness ==
    /\ acc.pc = "done" /\ acc.forkCalled /\ acc.ret = 0
    /\ acc.uid # NoId /\ acc.gid # NoId
    /\ c.pc = "c_reaped" /\ c.switched /\ Pos(c.ops, "access") > 0

\* C9: a host is selected iff max_npiv_vports is longer than
\* npiv_vports_inuse, or as long and greater in strcmp order; so with decimal
\* strings without leading zeros a host whose max is no more than its vports
\* in use is never selected, and the host returned is the first one compared
\* that has capacity left.
C9_CapacitySelection ==
    fc.pc # "idle" =>
        \A i \in 1..Len(fc.seen) :
            LET r == fc.seen[i] IN
            /\ r.picked <=>
                  \/ Len(r.max) > Len(r.inuse)
                  \/ Len(r.max) = Len(r.inuse) /\ StrCmp(r.max, r.inuse) > 0
            /\ (IsDecimal(r.max) /\ IsDecimal(r.inuse)
                  /\ DecValue(r.max) <= DecValue(r.inuse)) => ~ r.picked
            /\ r.picked => fc.ret = r.name /\ i = Len(fc.seen)

\* C10: a buffer of N bytes written with safewrite and read back with
\* saferead arrives whole and in order, whatever the partial transfers and
\* EINTR results of write() and read() and however the two interleave:
\* unless a transfer failed for good, both calls return N and the reader's
\* buffer holds the writer's bytes.
C10_RoundTrip ==
    io.pc # "idle" =>
        /\ io.chan \o SubSeq(io.data, io.w.nwritten + 1, Len(io.data))
              = SubSeq(io.data, io.r.nread + 1, Len(io.data))
        /\ \A i \in 1..io.r.nread : io.r.mem[i] = io.data[i]
        /\ (io.w.pc = "done" /\ io.r.pc = "done" /\ ~ io.hard) =>
              /\ io.w.ret = Len(io.data)
              /\ io.r.ret = Len(io.data)
              /\ io.r.mem = io.data

\* a buffer of the greatest length went through in pieces, both sides
\* interrupted on the way
C10_Witness ==
    /\ io.pc # "idle"
    /\ io.w.pc = "done" /\ io.r.pc = "done" /\ ~ io.hard
    /\ Len(io.data) = MaxLen /\ io.r.ret = MaxLen
    /\ io.w.eintr > 0 /\ io.r.eintr > 0
    /\ io.data[1] # io.data[2]

C12_RangeIsZero ==
    (io.pc = "done" /\ io.ret = 0) =>
        \A i \in (io.offset + 1)..(io.offset + io.len) :
            i <= Len(io.file) /\ io.file[i] = 0

\* C13: in virFileOpenAs, virFileAccessibleAs and virDirCreate a call that
\* forked a child returns only after the child has terminated and was waited
\* for: the child is collected only once it is dead, and at the return of the
\* call it has been collected
ForkedCallReturned ==
    /\ c # Idle
    /\ \/ p # Idle /\ p.pc = "done"
       \/ acc # Idle /\ acc.pc = "done"
       \/ dc # Idle /\ dc.pc = "done"
C13_ChildCollected ==
    [][/\ ForkedCallReturned' => c'.pc = "c_reaped"
       /\ (c'.pc = "c_reaped" /\ c.pc # "c_reaped") => c.pc = "c_dead"
       /\ ChildAlive => ~ ForkedCallReturned]_vars
\* a virDirCreate call that forked has returned, its child waited for
C13_Witness ==
    /\ dc # Idle /\ dc.pc = "done" /\ dc.forkCalled /\ dc.waited
    /\ c.pc = "c_reaped"

\* C14: in virFileOpenAs, once the direct open has failed, the fork path is
\* entered only with FORK in effect, the errno of the open EACCES or EPERM,
\* and the shared-filesystem check having answered 1; in every other case
\* the call returns a negative value and no child was forked.
OA_ForkPath ==
    \/ p.pc \in {"socketpair", "fork"}
    \/ p.forkCalled
    \/ c # Idle
OA_DirectFailed == p # Idle /\ p.directTried /\ p.directErr # 0
OA_MayRetry ==
    /\ "FORK" \in p.flags
    /\ p.directErr \in {EACCES, EPERM}
    /\ p.shared = 1
C14_ForkAfterFailure ==
    OA_DirectFailed =>
        /\ OA_ForkPath => OA_MayRetry
        /\ (p.pc = "done" /\ ~ OA_MayRetry) => (~ OA_ForkPath /\ p.retval < 0)
\* the direct open failed with EACCES, the file is on a shared filesystem:
\* a child was forked and the call has returned
C14_Witness ==
    /\ OA_DirectFailed /\ p.pc = "done" /\ p.directErr = EACCES
    /\ p.forkCalled /\ c.pc = "c_reaped" /\ p.shared = 1

\* C15: in virSetUIDGIDWithCaps a failure of setting KEEPCAPS, of applying
\* the temporary capability set, of the identity switch, of resetting
\* KEEPCAPS or of applying the final capability set makes the call return
\* -1; only a failure of the bounding-set application is tolerated.
C15_AnyFailureFatal ==
    (wc # Idle /\ wc.pc = "done") =>
        ((\E i \in 1..Len(wc.failed) : wc.failed[i] # "apply bounding")
            => wc.retval = -1)

\* C15, amended: the failure of applying the temporary capability set is
\* tolerated as well when the caller is not root, clearExistingCaps was
\* asked for and neither CAP_SETUID nor CAP_SETGID had to be added; the
\* call returns 0 exactly when nothing but tolerated failures happened, and
\* -1 otherwise.
WC_HelperCase ==
    me.uid > 0 /\ wc.clearExistingCaps /\ ~ wc.need_setuid /\ ~ wc.need_setgid
WC_Tolerated(step) ==
    \/ step = "apply bounding"
    \/ step = "apply temporary" /\ WC_HelperCase
C15_FailureFatalUnlessHelper ==
    (wc # Idle /\ wc.pc = "done") =>
        /\ wc.retval \in {0, -1}
        /\ wc.retval = 0 <=>
               \A i \in 1..Len(wc.failed) : WC_Tolerated(wc.failed[i])
\* the temporary set could not be applied by an unprivileged caller, the
\* bounding set neither, and the call returned 0
C15_Witness ==
    /\ wc # Idle /\ wc.pc = "done" /\ wc.retval = 0
    /\ wc.failed = <<"apply temporary", "apply bounding">>

\* C17: virCompareLimitUlong(a, b) orders limits with 0 as unlimited, above
\* every other value: 0 iff a = b, 1 iff a is the greater, -1 iff b is the
\* greater; so compare(a, 0) = -1 and compare(0, a) = 1 for a # 0, and
\* compare(a, b) = - compare(b, a).
LimitGreater(x, y) == x # y /\ (x = 0 \/ (y # 0 /\ x > y))
C17_UnlimitedOrder ==
    (cmp # Idle /\ cmp.pc = "done") =>
        /\ cmp.ret = 0 <=> cmp.a = cmp.b
        /\ cmp.ret = 1 <=> LimitGreater(cmp.a, cmp.b)
        /\ cmp.ret = -1 <=> LimitGreater(cmp.b, cmp.a)
        /\ cmp.ret = - CompareLimitUlong(cmp.b, cmp.a)

\* C16: a host returned by virFindFCHostCapableVport is one for which
\* virIsCapableVport reported a vport_create file (it answered 0) and whose
\* port_state read Online (the only hosts whose counts are compared); a
\* host that is not vport-capable is never returned.
C16_ReturnedHostCapable ==
    (fc # Idle /\ fc.pc = "done" /\ fc.ret # NULL) =>
        /\ IsCapableVport(fc.odd, fc.host) = 0
        /\ fc.seen # <<>> /\ fc.seen[Len(fc.seen)].name = fc.ret

\* C18: virDirCreate returns 0 only if every step it attempted succeeded: a
\* failure of mkdir (EEXIST under ALLOW_EXIST apart), stat, chown or chmod
\* in virDirCreateNoFork, or of the post-fork setup, the identity switch,
\* mkdir, stat, chown or chmod in the child whose status the parent
\* returns, makes the call return a negative value.
DC_StepFailed ==
    \/ dc.nofork /\ dc.failed # ""
    \/ ~ dc.nofork /\ dc.waited /\ c.pc = "c_reaped" /\ c.cause # 0
C18_ZeroOnlyOnSuccess ==
    (dc # Idle /\ dc.pc = "done" /\ DC_StepFailed) => dc.retval < 0

\* C19: virFileOpenAs attempts the direct open iff NOFORK is in effect, or
\* getuid() != 0, or the resolved target identity is (0, 0); the direct
\* attempt comes before any fork of the call; and a call that makes no
\* direct attempt with FORK in effect goes on to the fork with no
\* shared-filesystem check.
C19_DirectBeforeFork ==
    [][/\ p.pc = "direct" =>
            (p'.directTried <=>
                \/ "NOFORK" \in p.flags
                \/ me.uid # 0
                \/ (p.uid = 0 /\ p.gid = 0))
       /\ (p'.directTried /\ ~ p.directTried) =>
            (p.pc = "direct" /\ ~ p.forkCalled /\ c = Idle)
       /\ (p.pc = "forkcheck" /\ ~ p.directTried /\ "FORK" \in p.flags) =>
            (p'.pc = "socketpair" /\ p'.shared = -2)
       /\ (p'.forkCalled /\ ~ p'.directTried) => p'.shared = -2]_vars
\* root opened a file as another user with FORK alone: no direct attempt,
\* no shared-filesystem check, the child delivered the descriptor
C19_Witness ==
    /\ p.pc = "done" /\ ~ p.directTried /\ p.forkCalled
    /\ p.shared = -2 /\ p.retval >= 0 /\ p.opens = 0

\* C20: in virFileOpenForked the parent, the child waited for, returns
\* -EACCES without a further open exactly when the child reported permission
\* denied (it exited with EACCES) and NOFORK is in effect; in every other
\* case where the forked attempt produced no descriptor it falls back to a
\* direct open.
ChildDenied == WIFEXITED(c.status) /\ WEXITSTATUS(c.status) = EACCES
OF_GivenUp ==
    \/ ~ WIFEXITED(p.status)
    \/ WEXITSTATUS(p.status) = EACCES
    \/ p.ffd = -1
ChildSteps == <<"close", "switch", "open", "force", "send">>
C21_ChildOrder ==
    (c.pc \notin {"idle", "c_reaped"} /\ c.kind = "open") =>
        /\ Len(c.ops) <= Len(ChildSteps)
        /\ \A i \in 1..Len(c.ops) : c.ops[i] = ChildSteps[i]
        /\ (sug.pc # "idle" /\ sug.caller = "open") =>
              (sug.uid = p.uid /\ sug.gid = p.gid
               /\ sug.uid # NoId /\ sug.gid # NoId)
        /\ Len(c.ops) >= 3 =>
              (c.switched /\ ~ c.switchFailed
               /\ cred.euid = p.uid /\ cred.egid = p.gid)
        /\ c.sent => (c.ops = ChildSteps /\ c.cause = 0)
\* the child, switched to another identity than the caller's, has sent the
\* descriptor
C21_Witness ==
    /\ c.pc = "c_exit" /\ c.kind = "open" /\ c.sent
    /\ p.asked \cap ForkFlags = {"FORK"} /\ cred.euid # me.uid

\* C22: on the forked path of virDirCreate, the child having failed with
\* errno e, 0 < e <= 255, and exited, the parent derives -e from the exit
\* status: for EACCES it falls back to virDirCreateNoFork, for any other e
\* it returns -e.
C22_ChildErrnoDerived ==
    [][(/\ dc.pc = "waited" /\ dc.waited
        /\ WIFEXITED(c.status)
        /\ c.cause > 0 /\ c.cause <= ExitMask) =>
          IF c.cause = EACCES
          THEN dc'.pc = "nofork"
          ELSE dc'.pc = "done" /\ dc'.retval = - c.cause]_vars

\* C23: when fstat, fchown or fchmod fails while owner and mode are enforced
\* on a file that was opened, virFileOpenAs closes the descriptor, opens
\* nothing more and returns the negated errno of the failure, the
\* enforcement having run in the calling process or in the forked child.
C23_EnforcementFailureFatal ==
    [][/\ (p.pc = "dforce" /\ p'.pc = "error") =>
            (p'.ret < 0 /\ p'.ret = - p'.errno)
       /\ (p.pc = "error" /\ p.fd >= 0) =>
            /\ p'.pc = "done" /\ p'.retval = p.ret
            /\ p'.open = p.open \ {p.fd} /\ p'.opens = p.opens
       /\ (p.pc = "waited" /\ p.waited /\ c.forceFailed
            /\ WIFEXITED(c.status)) =>
            /\ p'.pc = "done" /\ p'.retval = - c.cause
            /\ p'.opens = p.opens]_vars

\* C24: in virFileOpenAs, the direct open having failed with EACCES or EPERM
\* and FORK being in effect, a shared-filesystem check answering "not
\* shared" makes the call return the error of the open, and a check that
\* itself fails makes it return the negated errno of the check.
C24_SharedCheckErrors ==
    (p # Idle /\ p.pc = "done" /\ p.directErr \in {EACCES, EPERM}
     /\ "FORK" \in p.flags) =>
        /\ p.shared = 0 => p.retval = - p.directErr
        /\ p.shared = -1 => p.retval = - p.errno

\* C25: virSetUIDGIDWithCaps having returned 0, the existing capabilities
\* having been cleared and every capability application having succeeded,
\* the effective and the permitted set of the process are exactly capBits:
\* CAP_SETUID, CAP_SETGID and CAP_SETPCAP are held iff capBits names them.
WC_Cleared == wc.clearExistingCaps \/ (wc.uid # NoId /\ wc.uid # 0)
C25_ExactlyCapBits ==
    (wc # Idle /\ wc.pc = "done" /\ wc.retval = 0 /\ WC_Cleared
     /\ wc.failed = <<>>) =>
        /\ wc.proc.eff = wc.capBits
        /\ wc.proc.perm = wc.capBits
        /\ \A cp \in {"CAP_SETUID", "CAP_SETGID", "CAP_SETPCAP"} :
              cp \in wc.proc.eff <=> cp \in wc.capBits
\* a call that asked for CAP_SETUID and one more capability, and had
\* CAP_SETGID and CAP_SETPCAP added for its own use, has returned 0
C25_Witness ==
    /\ wc # Idle /\ wc.pc = "done" /\ wc.retval = 0 /\ WC_Cleared
    /\ wc.failed = <<>> /\ wc.capBits = {"CAP_SETUID", "CAP_OTHER"}
    /\ wc.need_setgid /\ wc.need_setpcap /\ ~ wc.need_setuid
    /\ wc.proc.eff = wc.capBits

\* C26: a successful virSetUIDGIDWithCaps call enables keep-capabilities,
\* applies the temporary capability set, switches identity with
\* virSetUIDGID, disables keep-capabilities, applies the bounding set, drops
\* the transient capabilities and applies the final sets, in this order;
\* keep-capabilities is on while virSetUIDGID runs and off at the return.
WC_Steps ==
    <<"keep on", "apply temporary", "identity switch", "keep off",
      "apply bounding", "drop", "apply final">>
C26_StepOrder ==
    (wc # Idle) =>
        /\ Len(wc.seq) <= Len(WC_Steps)
        /\ \A i \in 1..Len(wc.seq) : wc.seq[i] = WC_Steps[i]
        /\ (sug.pc # "idle" /\ sug.caller = "caps") =>
              (wc.keepcaps /\ wc.seq = <<"keep on", "apply temporary">>)
        /\ (wc.pc = "done" /\ wc.retval = 0) =>
              (wc.seq = WC_Steps /\ ~ wc.keepcaps)
\* a call that changed both ids has returned 0
C26_Witness ==
    /\ wc # Idle /\ wc.pc = "done" /\ wc.retval = 0 /\ wc.seq = WC_Steps
    /\ wc.uid # NoId /\ wc.gid # NoId /\ cred.euid = wc.uid
    /\ ~ wc.keepcaps

\* C27: virManageVport probes the control file (vport_create or
\* vport_delete) of the given host under fc_host first and the one under
\* scsi_host only when the first does not exist; with neither there, or
\* with an operation that is neither VPORT_CREATE nor VPORT_DELETE, it
\* returns -1 and writes nothing; otherwise it makes exactly one write, of
\* wwnn:wwpn, to the file selected, and returns 0 iff that write succeeded.
MV_Valid == mv.operation \in {VPORT_CREATE, VPORT_DELETE}
MV_File == IF mv.operation = VPORT_CREATE THEN "vport_create" ELSE "vport_delete"
MV_FcPath ==
    [tree |-> "/sys/class/fc_host/", host |-> mv.parent_host, file |-> MV_File]
MV_ScsiPath ==
    [tree |-> "/sys/class/scsi_host/", host |-> mv.parent_host, file |-> MV_File]
C28_WaitFailureReturned ==
    [][/\ (p.pc = "waited" /\ ~ p.waited) =>
            (p'.pc = "done" /\ p'.retval = - p.errno)
       /\ (dc.pc = "waited" /\ ~ dc.waited) =>
            (dc'.pc = "done" /\ dc'.retval = - dc.errno)]_vars

\* C29: with VIR_DIR_CREATE_ALLOW_EXIST, virDirCreate does not fail because
\* the directory exists when mkdir runs, in the calling process or in the
\* forked child, another process having created it since the parent looked
\* for it (absent) or not.
C29_ExistingAllowed ==
    (dc # Idle /\ dc.pc = "done" /\ "ALLOW_EXIST" \in dc.flags) =>
        /\ ~ (dc.nofork /\ dc.failed = "mkdir" /\ dc.errno = EEXIST)
        /\ ~ (/\ ~ dc.nofork /\ dc.waited /\ c.pc = "c_reaped"
              /\ c.cause = EEXIST /\ dc.retval < 0)

\* C30: a virFileOpenAs call that has forked returns, the child exiting in
\* the end and EINTR not recurring for ever; a child that exits without
\* sending a descriptor does not leave the parent in recvfd.
C30_ForkedCallReturns ==
    (p # Idle /\ p.forkCalled) ~> (p # Idle /\ p.pc = "done")

\* the child failed to switch identity and exited having sent nothing; the
\* receive returned without a descriptor, the child was collected and the
\* call has returned
C30_Witness ==
    /\ p # Idle /\ p.pc = "done" /\ p.forkCalled /\ p.ffd = -1
    /\ c # Idle /\ c.pc = "c_reaped" /\ c.switchFailed

=============================================================================
